---- MODULE Spec2Model ----
(***************************************************************************)
(* Governed, reversible execution of spans: the span lifecycle engine      *)
(* (SpanEngine) and the policy and approval layer                          *)
(* (SecurityGovernanceEngine).                                             *)
(*                                                                         *)
(* The engine's methods are async functions on a single-threaded event     *)
(* loop.  Each runs without interruption up to its `await` of the bound    *)
(* procedure, and resumes, again without interruption, when that procedure *)
(* resolves or rejects.  A method is therefore two atomic steps: a Call    *)
(* step (lookup, guards, bookkeeping, start of the procedure) and a        *)
(* Resolve or Reject step (the code after the await, or the catch block).  *)
(* Steps of other calls may run between the two.                           *)
(***************************************************************************)
EXTENDS Integers, Sequences, FiniteSets, TLC

(* ------------------------------ bounds --------------------------------- *)
MaxSpans == 1
MaxCalls == 3
MaxTime == 2
MaxObsCalls == 3

(* --------------------------- span engine types ------------------------- *)
SpanType == {"navigation", "read", "write", "gui_automation", "io_operation", "computation"}

SpanStatus == {"pending", "simulating", "awaiting_approval", "executing",
               "completed", "failed", "rolled_back"}

\* Types createSpan is called with in the engine specification; the engine
\* stores the type and never reads it.
EngineTypes == {"write"}

VARIABLES
  spans,        \* SpanEngine.spans: span id -> SpanContext (a sequence, id = index)
  operations,   \* SpanEngine.operations: span id -> SpanOperation
  timeline,     \* SpanEngine.timeline
  inflight,     \* the calls suspended at their await, each known by where it started
  last,         \* the last engine step: the method, its span, what came of it
  now,          \* Date.now()
  policies,     \* SecurityGovernanceEngine.policies, in insertion order
  approvals,    \* SecurityGovernanceEngine.approvals, in insertion order
  currentUser,  \* SecurityGovernanceEngine.currentUser
  result,       \* the last governance or observability call: its arguments and what it returned or threw
  events,       \* TimelineObservabilityEngine.events
  metrics,      \* TimelineObservabilityEngine.metrics
  alerts,       \* TimelineObservabilityEngine.alerts
  auditLogs,    \* TimelineObservabilityEngine.auditLogs
  eventListeners, \* TimelineObservabilityEngine.eventListeners: event type -> listeners
  invoked,      \* the listeners the last observability call invoked, in order, and with which event
  serial,       \* identifiers and listeners handed out so far, plus one
  obsCalls,     \* observability calls made so far
  unifiedEvents, \* UnifiedTimeline.events, in insertion order
  traces        \* UnifiedTimeline.traces, in insertion order

obsVars == <<events, metrics, alerts, auditLogs, eventListeners, invoked, serial, obsCalls,
             unifiedEvents, traces>>

vars == <<spans, operations, timeline, inflight, last, now, policies, approvals, currentUser, result,
          obsVars>>

engineVars == <<spans, operations, timeline, inflight, last>>
govVars == <<policies, approvals, currentUser, result>>

\* endTime of a span that has none (undefined).
NoTime == 0
\* parentId of a span created without one (undefined).
NoParent == 0

SpanIdInputs == 1..MaxSpans

Methods == {"simulate", "execute", "rollback"}

\* What came of a step: "pending" when the call was accepted and is suspended
\* at its await, "ok" when the method returned, "rethrown" when the bound
\* procedure's error was re-raised, otherwise the error thrown at a guard.
Outcomes == {"pending", "ok", "rethrown", "NotFound", "NotReady", "NotReversible", "InvalidState"}

\* this.timeline.unshift(...): the entry is put first.
addTimelineEvent_unshift(tl, spanId, event) ==
  << [spanId |-> spanId, timestamp |-> now, event |-> event] >> \o tl

addTimelineEvent(tl, spanId, event) ==
  Append(tl, [spanId |-> spanId, timestamp |-> now, event |-> event])

Known(spanId) == spanId \in DOMAIN spans /\ spanId \in DOMAIN operations

\* Calls accepted so far: each logged one of these entries when it started.
\* The engine is called only while fewer than MaxCalls have been.
Started == {"simulation_started", "execution_started", "rollback_started"}
Accepted == Cardinality({i \in DOMAIN timeline : timeline[i].event \in Started})

\* Every step of the engine reports itself in `last`; `at` is the length of
\* the timeline when the call was made.
Reported(op, spanId, outcome, at) ==
  last' = [op |-> op, spanId |-> spanId, outcome |-> outcome, at |-> at]

\* A guard that leaves a trace of the refusal in the timeline.
Throw_logged(op, spanId, error) ==
  /\ Reported(op, spanId, error, Len(timeline))
  /\ timeline' = addTimelineEvent(timeline, spanId, "refused")
  /\ UNCHANGED <<spans, inflight>>

\* The method throws at a guard: nothing but the caller learns of it.
Throw(op, spanId, error) ==
  /\ Reported(op, spanId, error, Len(timeline))
  /\ UNCHANGED <<spans, timeline, inflight>>

\* The method reaches its await: the bound procedure is started.
Await(op, spanId) ==
  /\ inflight' = inflight \cup {[op |-> op, spanId |-> spanId, at |-> Len(timeline)]}
  /\ Reported(op, spanId, "pending", Len(timeline))

\* The bound procedure of suspended call c returns or throws.
Settle(c, outcome) ==
  /\ inflight' = inflight \ {c}
  /\ Reported(c.op, c.spanId, outcome, c.at)

InFlight(c, op) == c \in inflight /\ c.op = op

(* ------------------------------ createSpan ----------------------------- *)
\* A SpanOperation: whether it has a rollback procedure, and its description,
\* a sequence of tokens, a token being the PII category it matches or "text".
Operation(hasRollback, description) == [rollback |-> hasRollback, description |-> description]

PlainText == << "text" >>

\* createSpan with reversible: true whatever the operation.
createSpan_reversible(type, operation, parentId) ==
  /\ Len(spans) < MaxSpans
  /\ LET spanId == Len(spans) + 1
     IN /\ spans' = Append(spans, [id |-> spanId,
                                   parentId |-> parentId,
                                   type |-> type,
                                   status |-> "pending",
                                   startTime |-> now,
                                   endTime |-> NoTime,
                                   reversible |-> TRUE])
        /\ operations' = Append(operations, operation)
        /\ timeline' = addTimelineEvent(timeline, spanId, "span_created")
        /\ Reported("create", spanId, "ok", Len(timeline))
  /\ UNCHANGED <<inflight, now>>

\* createSpan that stores the span and forgets to bind its operation.
createSpan_unbound(type, operation, parentId) ==
  /\ Len(spans) < MaxSpans
  /\ LET spanId == Len(spans) + 1
     IN /\ spans' = Append(spans, [id |-> spanId,
                                   parentId |-> parentId,
                                   type |-> type,
                                   status |-> "pending",
                                   startTime |-> now,
                                   endTime |-> NoTime,
                                   reversible |-> operation.rollback])
        /\ operations' = operations
        /\ timeline' = addTimelineEvent(timeline, spanId, "span_created")
        /\ Reported("create", spanId, "ok", Len(timeline))
  /\ UNCHANGED <<inflight, now>>

createSpan(type, operation, parentId) ==
  /\ Len(spans) < MaxSpans
  /\ LET spanId == Len(spans) + 1
     IN /\ spans' = Append(spans, [id |-> spanId,
                                   parentId |-> parentId,
                                   type |-> type,
                                   status |-> "pending",
                                   startTime |-> now,
                                   endTime |-> NoTime,
                                   reversible |-> operation.rollback])
        /\ operations' = Append(operations, operation)
        /\ timeline' = addTimelineEvent(timeline, spanId, "span_created")
        /\ Reported("create", spanId, "ok", Len(timeline))
  /\ UNCHANGED <<inflight, now>>

(* ------------------------------ simulateSpan --------------------------- *)
simulateSpanCall(spanId) ==
  /\ Accepted < MaxCalls
  /\ IF ~Known(spanId)
       THEN Throw("simulate", spanId, "NotFound")
       ELSE /\ spans' = [spans EXCEPT ![spanId].status = "simulating"]
            /\ timeline' = addTimelineEvent(timeline, spanId, "simulation_started")
            /\ Await("simulate", spanId)
  /\ UNCHANGED <<operations, now>>

\* simulateSpan that logs simulation_completed and leaves the status for later.
simulateSpanResolve_statusLater(c) ==
  /\ InFlight(c, "simulate")
  /\ timeline' = addTimelineEvent(timeline, c.spanId, "simulation_completed")
  /\ Settle(c, "ok")
  /\ UNCHANGED <<spans, operations, now>>

simulateSpanResolve(c) ==
  /\ InFlight(c, "simulate")
  /\ spans' = [spans EXCEPT ![c.spanId].status = "awaiting_approval"]
  /\ timeline' = addTimelineEvent(timeline, c.spanId, "simulation_completed")
  /\ Settle(c, "ok")
  /\ UNCHANGED <<operations, now>>

simulateSpanReject(c) ==
  /\ InFlight(c, "simulate")
  /\ spans' = [spans EXCEPT ![c.spanId].status = "failed"]
  /\ timeline' = addTimelineEvent(timeline, c.spanId, "simulation_failed")
  /\ Settle(c, "rethrown")
  /\ UNCHANGED <<operations, now>>

(* ------------------------------ executeSpan ---------------------------- *)
\* executeSpan with its status guard dropped, as in simulateSpan.
executeReady_noGuard(span) == TRUE

\* executeSpan that asks governance: ready only with an approved approval.
executeReady_approved(span) ==
  /\ span.status = "awaiting_approval"
  /\ \E i \in DOMAIN approvals :
       approvals[i].spanId = span.id /\ approvals[i].status = "approved"

executeReady(span) == span.status = "awaiting_approval"

\* executeSpan that leaves the status alone until the forward procedure returns.
executeSpanCall_lateStatus(spanId) ==
  /\ Accepted < MaxCalls
  /\ IF ~Known(spanId)
       THEN Throw("execute", spanId, "NotFound")
       ELSE IF ~executeReady(spans[spanId])
       THEN Throw("execute", spanId, "NotReady")
       ELSE /\ timeline' = addTimelineEvent(timeline, spanId, "execution_started")
            /\ Await("execute", spanId)
            /\ UNCHANGED spans
  /\ UNCHANGED <<operations, now>>

executeSpanCall(spanId) ==
  /\ Accepted < MaxCalls
  /\ IF ~Known(spanId)
       THEN Throw("execute", spanId, "NotFound")
       ELSE IF ~executeReady(spans[spanId])
       THEN Throw("execute", spanId, "NotReady")
       ELSE /\ spans' = [spans EXCEPT ![spanId].status = "executing"]
            /\ timeline' = addTimelineEvent(timeline, spanId, "execution_started")
            /\ Await("execute", spanId)
  /\ UNCHANGED <<operations, now>>

executeSpanResolve(c) ==
  /\ InFlight(c, "execute")
  /\ spans' = [spans EXCEPT ![c.spanId].status = "completed",
                            ![c.spanId].endTime = now]
  /\ timeline' = addTimelineEvent(timeline, c.spanId, "execution_completed")
  /\ Settle(c, "ok")
  /\ UNCHANGED <<operations, now>>

\* executeSpan whose catch block forgets the end timestamp.
executeSpanReject_noEndTime(c) ==
  /\ InFlight(c, "execute")
  /\ spans' = [spans EXCEPT ![c.spanId].status = "failed"]
  /\ timeline' = addTimelineEvent(timeline, c.spanId, "execution_failed")
  /\ Settle(c, "rethrown")
  /\ UNCHANGED <<operations, now>>

executeSpanReject(c) ==
  /\ InFlight(c, "execute")
  /\ spans' = [spans EXCEPT ![c.spanId].status = "failed",
                            ![c.spanId].endTime = now]
  /\ timeline' = addTimelineEvent(timeline, c.spanId, "execution_failed")
  /\ Settle(c, "rethrown")
  /\ UNCHANGED <<operations, now>>

(* ------------------------------ rollbackSpan --------------------------- *)
rollbackReversible(span, operation) == span.reversible /\ operation.rollback

\* rollbackSpan that also accepts a span whose execution failed.
rollbackCompleted_orFailed(span) == span.status \in {"completed", "failed"}

rollbackCompleted(span) == span.status = "completed"

rollbackSpanCall(spanId) ==
  /\ Accepted < MaxCalls
  /\ IF ~Known(spanId)
       THEN Throw("rollback", spanId, "NotFound")
       ELSE IF ~rollbackReversible(spans[spanId], operations[spanId])
       THEN Throw("rollback", spanId, "NotReversible")
       ELSE IF ~rollbackCompleted(spans[spanId])
       THEN Throw("rollback", spanId, "InvalidState")
       ELSE /\ timeline' = addTimelineEvent(timeline, spanId, "rollback_started")
            /\ Await("rollback", spanId)
            /\ UNCHANGED spans
  /\ UNCHANGED <<operations, now>>

rollbackSpanResolve(c) ==
  /\ InFlight(c, "rollback")
  /\ spans' = [spans EXCEPT ![c.spanId].status = "rolled_back"]
  /\ timeline' = addTimelineEvent(timeline, c.spanId, "rollback_completed")
  /\ Settle(c, "ok")
  /\ UNCHANGED <<operations, now>>

\* rollbackSpan whose catch block marks the span failed, as executeSpan's does.
rollbackSpanReject_marksFailed(c) ==
  /\ InFlight(c, "rollback")
  /\ spans' = [spans EXCEPT ![c.spanId].status = "failed"]
  /\ timeline' = addTimelineEvent(timeline, c.spanId, "rollback_failed")
  /\ Settle(c, "rethrown")
  /\ UNCHANGED <<operations, now>>

rollbackSpanReject(c) ==
  /\ InFlight(c, "rollback")
  /\ timeline' = addTimelineEvent(timeline, c.spanId, "rollback_failed")
  /\ Settle(c, "rethrown")
  /\ UNCHANGED <<spans, operations, now>>

(* ============================ governance =============================== *)
(* The governance methods are async too, but await only one another; none  *)
(* waits for anything outside the engine, so each runs to completion in    *)
(* one turn of the event loop and is one atomic step here.                 *)

RiskLevels == {"low", "medium", "high", "critical"}

NoUser == "null"
NoApproval == "undefined"
NoError == "none"

\* JavaScript Map: set keeps the position of an existing key, appends a new one.
MapHas(m, id) == \E i \in DOMAIN m : m[i].id = id
MapGet(m, id) == m[CHOOSE i \in DOMAIN m : m[i].id = id]
MapSet(m, id, v) ==
  IF MapHas(m, id) THEN [i \in DOMAIN m |-> IF m[i].id = id THEN v ELSE m[i]]
                   ELSE Append(m, v)

\* initializeDefaultPolicies whose approval rule names the critical level only.
defaultPolicies_criticalOnly ==
  << [id |-> "high-risk-approval", name |-> "High Risk Operations Require Approval",
      enabled |-> TRUE, created |-> 1, lastModified |-> 1,
      rules |-> << [id |-> "rule-1", type |-> "require_approval",
                    condition |-> [spanType |-> SpanType, riskLevel |-> {"critical"}, rest |-> TRUE],
                    action |-> "require_governance_approval", priority |-> 1] >>],
     [id |-> "domain-restrictions", name |-> "Domain Access Restrictions",
      enabled |-> TRUE, created |-> 1, lastModified |-> 1,
      rules |-> << [id |-> "rule-2", type |-> "deny",
                    condition |-> [spanType |-> SpanType, riskLevel |-> RiskLevels, rest |-> FALSE],
                    action |-> "block_access", priority |-> 2] >>],
     [id |-> "business-hours", name |-> "Business Hours Only",
      enabled |-> FALSE, created |-> 1, lastModified |-> 1,
      rules |-> << [id |-> "rule-3", type |-> "deny",
                    condition |-> [spanType |-> SpanType, riskLevel |-> RiskLevels, rest |-> TRUE],
                    action |-> "time_restriction", priority |-> 3] >>] >>

\* initializeDefaultPolicies.  A condition is kept as the set of span types
\* and the set of risk levels it admits (every type or level when the policy
\* leaves that part out) and `rest`: whether its target-domain, role and
\* time-window parts hold.  No span carries a target domain, so rule-2 has
\* rest = FALSE; rule-3 is evaluated outside its allowed hours.
defaultPolicies ==
  << [id |-> "high-risk-approval", name |-> "High Risk Operations Require Approval",
      enabled |-> TRUE, created |-> 1, lastModified |-> 1,
      rules |-> << [id |-> "rule-1", type |-> "require_approval",
                    condition |-> [spanType |-> SpanType, riskLevel |-> {"high", "critical"}, rest |-> TRUE],
                    action |-> "require_governance_approval", priority |-> 1] >>],
     [id |-> "domain-restrictions", name |-> "Domain Access Restrictions",
      enabled |-> TRUE, created |-> 1, lastModified |-> 1,
      rules |-> << [id |-> "rule-2", type |-> "deny",
                    condition |-> [spanType |-> SpanType, riskLevel |-> RiskLevels, rest |-> FALSE],
                    action |-> "block_access", priority |-> 2] >>],
     [id |-> "business-hours", name |-> "Business Hours Only",
      enabled |-> FALSE, created |-> 1, lastModified |-> 1,
      rules |-> << [id |-> "rule-3", type |-> "deny",
                    condition |-> [spanType |-> SpanType, riskLevel |-> RiskLevels, rest |-> TRUE],
                    action |-> "time_restriction", priority |-> 3] >>] >>

(* ------------------------------ assessSpanRisk ------------------------- *)
typeFactor(type) ==
  CASE type = "navigation" -> << [type |-> "navigation_risk", impact |-> 3, likelihood |-> 2, score |-> 6] >>
    [] type = "write" -> << [type |-> "data_modification", impact |-> 4, likelihood |-> 3, score |-> 12] >>
    [] type = "gui_automation" -> << [type |-> "user_interaction", impact |-> 3, likelihood |-> 4, score |-> 12] >>
    [] OTHER -> << >>

\* assessSpanRisk with the reversibility test turned round.
reversibilityFactor_whenReversible(reversible) ==
  IF reversible
    THEN << [type |-> "irreversible_action", impact |-> 5, likelihood |-> 5, score |-> 25] >>
    ELSE << >>

reversibilityFactor(reversible) ==
  IF ~reversible
    THEN << [type |-> "irreversible_action", impact |-> 5, likelihood |-> 5, score |-> 25] >>
    ELSE << >>

RECURSIVE SumScores(_)
SumScores(fs) == IF fs = << >> THEN 0 ELSE Head(fs).score + SumScores(Tail(fs))

riskLevel(totalScore) ==
  IF totalScore <= 10 THEN "low"
  ELSE IF totalScore <= 20 THEN "medium"
  ELSE IF totalScore <= 35 THEN "high"
  ELSE "critical"

assessSpanRisk(span) ==
  LET factors == typeFactor(span.type) \o reversibilityFactor(span.reversible)
      totalScore == SumScores(factors)
      level == riskLevel(totalScore)
  IN [level |-> level,
      factors |-> [i \in DOMAIN factors |-> [type |-> factors[i].type,
                                             impact |-> factors[i].impact,
                                             likelihood |-> factors[i].likelihood]],
      score |-> totalScore,
      mitigations |->
        (IF level \in {"high", "critical"}
           THEN << "Require manual approval before execution",
                   "Enable comprehensive audit logging" >>
           ELSE << >>)
        \o (IF ~span.reversible THEN << "Create backup before execution" >> ELSE << >>)]

(* --------------------------------- PII --------------------------------- *)
PIICategories == {"email", "ssn", "phone", "creditCard", "ipAddress",
                  "passport", "driverLicense", "bankAccount"}

\* JSON.stringify(span.args || {}) as a sequence of tokens.  SpanContext has
\* no args field and createSpan sets none (what the span was created with
\* stays in its operation), so the content is that of "{}": no token.
spanContent(span) == << >>

detectPII(content) ==
  LET detectedTypes == {content[i] : i \in DOMAIN content} \cap PIICategories
  IN [hasPII |-> detectedTypes # {}, piiTypes |-> detectedTypes]

\* The needle "pii" occurs in none of the factor types assessSpanRisk produces.
factorTypeIncludesPii(type) ==
  type \notin {"navigation_risk", "data_modification", "user_interaction", "irreversible_action"}

hasApprovedPIIContract(spanId) ==
  \E i \in DOMAIN approvals :
    /\ approvals[i].spanId = spanId
    /\ approvals[i].status = "approved"
    /\ \E f \in DOMAIN approvals[i].riskAssessment.factors :
         factorTypeIncludesPii(approvals[i].riskAssessment.factors[f].type)

(* ---------------------- evaluateSpanAgainstPolicies -------------------- *)
ruleApplies(rule, span, riskAssessment) ==
  /\ span.type \in rule.condition.spanType
  /\ riskAssessment.level \in rule.condition.riskLevel
  /\ rule.condition.rest

\* The body of the rule loop for an allow rule that un-denies.
applyRule_allowOverrides(policy, rule, acc) ==
  LET hit == [acc EXCEPT !.applicablePolicies = Append(@, policy.id)]
  IN CASE rule.type = "deny" ->
            [hit EXCEPT !.allowed = FALSE,
                        !.violations = Append(@, <<policy.name, rule.action>>)]
       [] rule.type = "require_approval" -> [hit EXCEPT !.requiresApproval = TRUE]
       [] OTHER -> [hit EXCEPT !.allowed = TRUE]

\* The body of the rule loop for a rule that applies.
applyRule(policy, rule, acc) ==
  LET hit == [acc EXCEPT !.applicablePolicies = Append(@, policy.id)]
  IN CASE rule.type = "deny" ->
            [hit EXCEPT !.allowed = FALSE,
                        !.violations = Append(@, <<policy.name, rule.action>>)]
       [] rule.type = "require_approval" -> [hit EXCEPT !.requiresApproval = TRUE]
       [] OTHER -> hit

RECURSIVE applyRules(_, _, _, _, _)
applyRules(policy, i, span, riskAssessment, acc) ==
  IF i > Len(policy.rules) THEN acc
  ELSE applyRules(policy, i + 1, span, riskAssessment,
                  IF ruleApplies(policy.rules[i], span, riskAssessment)
                    THEN applyRule(policy, policy.rules[i], acc)
                    ELSE acc)

policyEnabled(policy) == policy.enabled

RECURSIVE applyPolicies(_, _, _, _)
applyPolicies(p, span, riskAssessment, acc) ==
  IF p > Len(policies) THEN acc
  ELSE applyPolicies(p + 1, span, riskAssessment,
                     IF ~policyEnabled(policies[p]) THEN acc
                     ELSE applyRules(policies[p], 1, span, riskAssessment, acc))

PiiViolation == <<"PII", "PII detected - contract approval required before execution">>

evaluateSpanAgainstPolicies(spanId) ==
  LET span == spans[spanId]
      riskAssessment == assessSpanRisk(span)
      piiResult == detectPII(spanContent(span))
      needsContract == piiResult.hasPII /\ ~hasApprovedPIIContract(spanId)
      start == [allowed |-> TRUE,
                requiresApproval |-> needsContract,
                violations |-> IF needsContract THEN <<PiiViolation>> ELSE << >>,
                applicablePolicies |-> << >>,
                piiDetected |-> piiResult.hasPII,
                contractRequired |-> needsContract]
  IN applyPolicies(1, span, riskAssessment, start)

(* ------------------------------ requestApproval ------------------------ *)
ExpiryWindow == 86400000

\* getRequiredApprovers with the high case fallen through to medium's.
getRequiredApprovers_highAsMedium(level) ==
  CASE level = "low" -> << >>
    [] level \in {"medium", "high"} -> << "approver_1" >>
    [] level = "critical" -> << "approver_1", "approver_2", "security_admin" >>
    [] OTHER -> << >>

getRequiredApprovers(level) ==
  CASE level = "low" -> << >>
    [] level = "medium" -> << "approver_1" >>
    [] level = "high" -> << "approver_1", "approver_2" >>
    [] level = "critical" -> << "approver_1", "approver_2", "security_admin" >>
    [] OTHER -> << >>

approvalIdNow == "approval_" \o ToString(now)

\* requestApproval that stamps the expiry with the request time itself.
newApproval_expiresAtRequest(spanId) ==
  LET riskAssessment == assessSpanRisk(spans[spanId])
      requiredApprovers == getRequiredApprovers(riskAssessment.level)
  IN [id |-> approvalIdNow,
      spanId |-> spanId,
      requestedBy |-> currentUser,
      requestedAt |-> now,
      approvers |-> [i \in DOMAIN requiredApprovers |->
                       [userId |-> requiredApprovers[i], status |-> "pending",
                        timestamp |-> NoTime, comment |-> ""]],
      status |-> "pending",
      riskAssessment |-> riskAssessment,
      expiresAt |-> now]

newApproval(spanId) ==
  LET riskAssessment == assessSpanRisk(spans[spanId])
      requiredApprovers == getRequiredApprovers(riskAssessment.level)
  IN [id |-> approvalIdNow,
      spanId |-> spanId,
      requestedBy |-> currentUser,
      requestedAt |-> now,
      approvers |-> [i \in DOMAIN requiredApprovers |->
                       [userId |-> requiredApprovers[i], status |-> "pending",
                        timestamp |-> NoTime, comment |-> ""]],
      status |-> "pending",
      riskAssessment |-> riskAssessment,
      expiresAt |-> now + ExpiryWindow]

Report(op, arg, err, ret) ==
  result' = [op |-> op, arg |-> arg, err |-> err, ret |-> ret]

NoRet == [none |-> TRUE]

requestApproval(spanId) ==
  /\ IF currentUser = NoUser
       THEN /\ Report("requestApproval", spanId, "NoAuthenticatedUser", NoRet)
            /\ UNCHANGED approvals
       ELSE IF spanId \notin DOMAIN spans
       THEN /\ Report("requestApproval", spanId, "NotFound", NoRet)
            /\ UNCHANGED approvals
       ELSE /\ approvals' = MapSet(approvals, approvalIdNow, newApproval(spanId))
            /\ Report("requestApproval", spanId, NoError, [approvalId |-> approvalIdNow])
  /\ UNCHANGED <<policies, currentUser, now>>

(* ------------------------- approveSpan, rejectSpan --------------------- *)
\* approvers.find: the position of the first approver with this user id, 0
\* when there is none (undefined).
findApprover_orFirst(approval, userId) ==
  IF \E i \in DOMAIN approval.approvers : approval.approvers[i].userId = userId
    THEN CHOOSE i \in DOMAIN approval.approvers :
           /\ approval.approvers[i].userId = userId
           /\ \A j \in 1..(i - 1) : approval.approvers[j].userId # userId
    ELSE IF approval.approvers # << >> THEN 1 ELSE 0

findApprover(approval, userId) ==
  IF \E i \in DOMAIN approval.approvers : approval.approvers[i].userId = userId
    THEN CHOOSE i \in DOMAIN approval.approvers :
           /\ approval.approvers[i].userId = userId
           /\ \A j \in 1..(i - 1) : approval.approvers[j].userId # userId
    ELSE 0

\* The approver's entry once they have decided.
decided(approver, status, comment) ==
  [approver EXCEPT !.status = status, !.timestamp = now, !.comment = comment]

\* approveSpan that looks at the expiry timestamp: a pending approval whose
\* expiry has passed is made expired and the call throws.
approveSpan_checksExpiry(approvalId, userId, comment) ==
  /\ IF ~MapHas(approvals, approvalId)
       THEN /\ Report("approveSpan", <<approvalId, userId>>, "NotFound", NoRet)
            /\ UNCHANGED approvals
       ELSE LET approval == MapGet(approvals, approvalId)
                k == findApprover(approval, userId)
            IN IF approval.status # "pending"
                 THEN /\ Report("approveSpan", <<approvalId, userId>>, "InvalidApprovalState", NoRet)
                      /\ UNCHANGED approvals
               ELSE IF now > approval.expiresAt
                 THEN /\ Report("approveSpan", <<approvalId, userId>>, "InvalidApprovalState", NoRet)
                      /\ approvals' = MapSet(approvals, approvalId,
                                              [approval EXCEPT !.status = "expired"])
               ELSE IF k = 0
                 THEN /\ Report("approveSpan", <<approvalId, userId>>, "NotAnApprover", NoRet)
                      /\ UNCHANGED approvals
               ELSE LET voted == [approval EXCEPT
                                    !.approvers[k] = decided(@, "approved", comment)]
                        allApproved == \A i \in DOMAIN voted.approvers :
                                         voted.approvers[i].status = "approved"
                    IN /\ approvals' = MapSet(approvals, approvalId,
                                              IF allApproved
                                                THEN [voted EXCEPT !.status = "approved"]
                                                ELSE voted)
                       /\ Report("approveSpan", <<approvalId, userId>>, NoError, NoRet)
  /\ UNCHANGED <<policies, currentUser, now>>

approveSpan(approvalId, userId, comment) ==
  /\ IF ~MapHas(approvals, approvalId)
       THEN /\ Report("approveSpan", <<approvalId, userId>>, "NotFound", NoRet)
            /\ UNCHANGED approvals
       ELSE LET approval == MapGet(approvals, approvalId)
                k == findApprover(approval, userId)
            IN IF approval.status # "pending"
                 THEN /\ Report("approveSpan", <<approvalId, userId>>, "InvalidApprovalState", NoRet)
                      /\ UNCHANGED approvals
               ELSE IF k = 0
                 THEN /\ Report("approveSpan", <<approvalId, userId>>, "NotAnApprover", NoRet)
                      /\ UNCHANGED approvals
               ELSE LET voted == [approval EXCEPT
                                    !.approvers[k] = decided(@, "approved", comment)]
                        allApproved == \A i \in DOMAIN voted.approvers :
                                         voted.approvers[i].status = "approved"
                    IN /\ approvals' = MapSet(approvals, approvalId,
                                              IF allApproved
                                                THEN [voted EXCEPT !.status = "approved"]
                                                ELSE voted)
                       /\ Report("approveSpan", <<approvalId, userId>>, NoError, NoRet)
  /\ UNCHANGED <<policies, currentUser, now>>

\* rejectSpan that records the approver's vote and leaves the overall status
\* to a count, as approveSpan does.
rejectSpan_countsVotes(approvalId, userId, comment) ==
  /\ IF ~MapHas(approvals, approvalId)
       THEN /\ Report("rejectSpan", <<approvalId, userId>>, "NotFound", NoRet)
            /\ UNCHANGED approvals
       ELSE LET approval == MapGet(approvals, approvalId)
                k == findApprover(approval, userId)
            IN IF k = 0
                 THEN /\ Report("rejectSpan", <<approvalId, userId>>, "NotAnApprover", NoRet)
                      /\ UNCHANGED approvals
               ELSE LET voted == [approval EXCEPT
                                    !.approvers[k] = decided(@, "rejected", comment)]
                        allRejected == \A i \in DOMAIN voted.approvers :
                                         voted.approvers[i].status = "rejected"
                    IN /\ approvals' = MapSet(approvals, approvalId,
                                              IF allRejected
                                                THEN [voted EXCEPT !.status = "rejected"]
                                                ELSE voted)
                       /\ Report("rejectSpan", <<approvalId, userId>>, NoError, NoRet)
  /\ UNCHANGED <<policies, currentUser, now>>

\* rejectSpan that marks every approver of the approval rejected.
rejectSpan_rejectsAll(approvalId, userId, comment) ==
  /\ IF ~MapHas(approvals, approvalId)
       THEN /\ Report("rejectSpan", <<approvalId, userId>>, "NotFound", NoRet)
            /\ UNCHANGED approvals
       ELSE LET approval == MapGet(approvals, approvalId)
                k == findApprover(approval, userId)
            IN IF k = 0
                 THEN /\ Report("rejectSpan", <<approvalId, userId>>, "NotAnApprover", NoRet)
                      /\ UNCHANGED approvals
               ELSE /\ approvals' = MapSet(approvals, approvalId,
                                           [approval EXCEPT
                                              !.approvers = [i \in DOMAIN @ |->
                                                               decided(@[i], "rejected", comment)],
                                              !.status = "rejected"])
                    /\ Report("rejectSpan", <<approvalId, userId>>, NoError, NoRet)
  /\ UNCHANGED <<policies, currentUser, now>>

rejectSpan(approvalId, userId, comment) ==
  /\ IF ~MapHas(approvals, approvalId)
       THEN /\ Report("rejectSpan", <<approvalId, userId>>, "NotFound", NoRet)
            /\ UNCHANGED approvals
       ELSE LET approval == MapGet(approvals, approvalId)
                k == findApprover(approval, userId)
            IN IF k = 0
                 THEN /\ Report("rejectSpan", <<approvalId, userId>>, "NotAnApprover", NoRet)
                      /\ UNCHANGED approvals
               ELSE /\ approvals' = MapSet(approvals, approvalId,
                                           [approval EXCEPT
                                              !.approvers[k] = decided(@, "rejected", comment),
                                              !.status = "rejected"])
                    /\ Report("rejectSpan", <<approvalId, userId>>, NoError, NoRet)
  /\ UNCHANGED <<policies, currentUser, now>>

(* ------------------------------- evaluate ------------------------------ *)
evaluate(spanId) ==
  /\ IF spanId \notin DOMAIN spans
       THEN Report("evaluate", spanId, "NotFound", NoRet)
       ELSE Report("evaluate", spanId, NoError, evaluateSpanAgainstPolicies(spanId))
  /\ UNCHANGED <<policies, approvals, currentUser, now>>

(* -------------------------------- assess ------------------------------- *)
\* assessSpanRisk as callers reach it: by span id.
assess(spanId) ==
  /\ IF spanId \notin DOMAIN spans
       THEN Report("assessSpanRisk", spanId, "NotFound", NoRet)
       ELSE Report("assessSpanRisk", spanId, NoError, assessSpanRisk(spans[spanId]))
  /\ UNCHANGED <<policies, approvals, currentUser, now>>

(* -------------------------- validateSpanExecution ---------------------- *)
\* validateSpanExecution that asks for an approval only when a contract is required.
needsApproval_contractOnly(evaluation) == evaluation.contractRequired

needsApproval(evaluation) == evaluation.requiresApproval \/ evaluation.contractRequired

validateSpanExecution(spanId) ==
  /\ IF spanId \notin DOMAIN spans
       THEN /\ Report("validate", spanId, "NotFound", NoRet)
            /\ UNCHANGED approvals
       ELSE LET evaluation == evaluateSpanAgainstPolicies(spanId)
            IN IF ~evaluation.allowed
                 THEN /\ Report("validate", spanId, NoError,
                                [canExecute |-> FALSE,
                                 requiresApproval |-> FALSE,
                                 approvalId |-> NoApproval,
                                 violations |-> evaluation.violations,
                                 piiDetected |-> evaluation.piiDetected,
                                 contractRequired |-> evaluation.contractRequired])
                      /\ UNCHANGED approvals
               ELSE IF needsApproval(evaluation)
                 THEN IF currentUser = NoUser
                        THEN /\ Report("validate", spanId, "NoAuthenticatedUser", NoRet)
                             /\ UNCHANGED approvals
                        ELSE /\ approvals' = MapSet(approvals, approvalIdNow, newApproval(spanId))
                             /\ Report("validate", spanId, NoError,
                                       [canExecute |-> FALSE,
                                        requiresApproval |-> TRUE,
                                        approvalId |-> approvalIdNow,
                                        violations |-> << >>,
                                        piiDetected |-> evaluation.piiDetected,
                                        contractRequired |-> evaluation.contractRequired])
               ELSE /\ Report("validate", spanId, NoError,
                              [canExecute |-> TRUE,
                               requiresApproval |-> FALSE,
                               approvalId |-> NoApproval,
                               violations |-> << >>,
                               piiDetected |-> evaluation.piiDetected,
                               contractRequired |-> FALSE])
                    /\ UNCHANGED approvals
  /\ UNCHANGED <<policies, currentUser, now>>

(* --------------------------- policy management ------------------------- *)
MaxPolicies == 1

DenyWrite == [id |-> "deny-write", type |-> "deny",
              condition |-> [spanType |-> {"write"}, riskLevel |-> RiskLevels, rest |-> TRUE],
              action |-> "block_write", priority |-> 1]
AllowAll == [id |-> "allow-all", type |-> "allow",
             condition |-> [spanType |-> SpanType, riskLevel |-> RiskLevels, rest |-> TRUE],
             action |-> "allow", priority |-> 9]
ApproveNavigation == [id |-> "approve-navigation", type |-> "require_approval",
                      condition |-> [spanType |-> {"navigation"}, riskLevel |-> {"low", "medium"}, rest |-> TRUE],
                      action |-> "require_governance_approval", priority |-> 5]

\* Policies createPolicy is called with: a deny rule ahead of an allow rule,
\* and one behind an allow and a require_approval rule.
PolicyInputs ==
  { [name |-> "deny then allow", enabled |-> TRUE, rules |-> <<DenyWrite, AllowAll>>],
    [name |-> "allow then deny", enabled |-> TRUE, rules |-> <<AllowAll, ApproveNavigation, DenyWrite>>] }

DefaultPolicyIds == {defaultPolicies[i].id : i \in DOMAIN defaultPolicies}

createPolicy(policy) ==
  /\ Cardinality({i \in DOMAIN policies : policies[i].id \notin DefaultPolicyIds}) < MaxPolicies
  /\ LET policyId == "policy_" \o ToString(now)
     IN /\ policies' = MapSet(policies, policyId,
                              [id |-> policyId, name |-> policy.name,
                               enabled |-> policy.enabled, created |-> now,
                               lastModified |-> now, rules |-> policy.rules])
        /\ Report("createPolicy", policyId, NoError, NoRet)
  /\ UNCHANGED <<approvals, currentUser, now>>

updatePolicy(policyId, enabled) ==
  /\ IF ~MapHas(policies, policyId)
       THEN /\ Report("updatePolicy", policyId, "NotFound", NoRet)
            /\ UNCHANGED policies
       ELSE /\ policies' = MapSet(policies, policyId,
                                  [MapGet(policies, policyId) EXCEPT !.enabled = enabled,
                                                                     !.lastModified = now])
            /\ Report("updatePolicy", policyId, NoError, NoRet)
  /\ UNCHANGED <<approvals, currentUser, now>>

(* ===================== timeline and observability ====================== *)
\* TimelineObservabilityEngine keeps four arrays and a map of listeners.  Its
\* methods are synchronous: a call, with every listener it triggers and every
\* call those make, is one step.  The engine is threaded through such a call
\* as a record `o` of the arrays; `ret` is what the innermost finished call
\* returned and `random` what Math.random() yields for the simulated execution
\* time.

\* The event types the engine registers listeners for or logs itself.
EventType == {"SPAN_CREATED", "SPAN_EXECUTED", "SPAN_FAILED", "SECURITY_VIOLATION",
              "PERFORMANCE_ALERT"}

EventCap == 1000
MetricCap == 10000
AuditCap == 5000

\* The listeners of setupEventListeners, by what their bodies do, and the
\* listeners a caller registers: one that returns and one that throws.
DefaultListenerKinds == {"spans_created_total", "spans_executed_total", "spans_failed_total",
                         "security_violation"}
CallerListenerKinds == {"returns", "throws"}

Listener(id, kind) == [id |-> id, kind |-> kind]

\* setupEventListeners
defaultListeners ==
  [type \in EventType |->
     CASE type = "SPAN_CREATED" -> << Listener(1, "spans_created_total") >>
       [] type = "SPAN_EXECUTED" -> << Listener(2, "spans_executed_total") >>
       [] type = "SPAN_FAILED" -> << Listener(3, "spans_failed_total") >>
       [] type = "SECURITY_VIOLATION" -> << Listener(4, "security_violation") >>
       [] OTHER -> << >>]

\* The listeners of setupEventListeners took the serial numbers before it.
FirstSerial == Cardinality(DefaultListenerKinds) + 1

\* array.slice(0, cap): the newest entries are the ones dropped.
slice_keepsOldest(array, cap) ==
  IF Len(array) > cap THEN SubSeq(array, 1, cap) ELSE array

\* array.slice(-cap)
slice(array, cap) ==
  IF Len(array) > cap THEN SubSeq(array, Len(array) - cap + 1, Len(array)) ELSE array

\* `${prefix}_${Date.now()}_${Math.random().toString(36).substr(2, 9)}`: the
\* random suffix is taken never to repeat, and stands as a serial number.
NewId(prefix, o) == prefix \o "_" \o ToString(now) \o "_" \o ToString(o.serial)

thresholds ==
  [cpu_usage |-> [warning |-> 80, critical |-> 95],
   memory_usage |-> [warning |-> 80, critical |-> 95],
   span_execution_time |-> [warning |-> 5000, critical |-> 10000]]

\* severity === "critical" ? "critical" : severity === "high" ? "error" : "warning"
alertEventSeverity(severity) ==
  IF severity = "critical" THEN "critical"
  ELSE IF severity = "high" THEN "error" ELSE "warning"

RECURSIVE logEvent(_, _, _, _)
RECURSIVE forEachListener(_, _, _, _)
RECURSIVE forEachListener_stopsAtThrow(_, _, _, _)
RECURSIVE listener(_, _, _)
RECURSIVE createAlert(_, _, _, _)
RECURSIVE recordMetric(_, _, _, _)
RECURSIVE checkPerformanceThresholds(_, _, _, _)
RECURSIVE checkPerformanceThresholds_above(_, _, _, _)

logEvent(o, type, source, severity) ==
  LET eventId == NewId("event", o)
      event == [id |-> eventId, timestamp |-> now, type |-> type, source |-> source,
                severity |-> severity]
      pushed == [o EXCEPT !.events = Append(@, event), !.serial = @ + 1]
      listeners == IF type \in DOMAIN eventListeners THEN eventListeners[type] ELSE << >>
      notified == forEachListener(pushed, listeners, 1, event)
  IN [notified EXCEPT !.events = slice(@, EventCap), !.ret = eventId]

\* listeners.forEach without the try/catch: the first listener that throws
\* ends the loop.
forEachListener_stopsAtThrow(o, listeners, i, event) ==
  IF i > Len(listeners)
    THEN o
  ELSE IF listeners[i].kind = "throws"
    THEN listener(o, listeners[i], event)
  ELSE forEachListener_stopsAtThrow(listener(o, listeners[i], event), listeners, i + 1, event)

\* listeners.forEach with its try/catch: a listener that throws is logged to
\* the console and the next one is called.
forEachListener(o, listeners, i, event) ==
  IF i > Len(listeners)
    THEN o
    ELSE forEachListener(listener(o, listeners[i], event), listeners, i + 1, event)

\* One call of a listener; `invoked` notes it.  What a listener that throws
\* did before throwing is nothing.
listener(o, l, event) ==
  LET called == [o EXCEPT !.invoked = Append(@, [listener |-> l.id, event |-> event.id])]
  IN CASE l.kind = "spans_created_total" ->
            recordMetric(called, "spans_created_total", 1, "span_engine")
       [] l.kind = "spans_executed_total" ->
            recordMetric(recordMetric(called, "spans_executed_total", 1, "span_engine"),
                         "span_execution_time", o.random, "span_engine")
       [] l.kind = "spans_failed_total" ->
            createAlert(recordMetric(called, "spans_failed_total", 1, "span_engine"),
                        "error", "high", "span_engine")
       [] l.kind = "security_violation" ->
            createAlert(called, "security", "critical", "security_engine")
       [] OTHER -> called

createAlert(o, type, severity, source) ==
  LET alertId == NewId("alert", o)
      alert == [id |-> alertId, timestamp |-> now, type |-> type, severity |-> severity,
                source |-> source, resolved |-> FALSE, resolvedAt |-> NoTime,
                resolvedBy |-> ""]
      pushed == [o EXCEPT !.alerts = Append(@, alert), !.serial = @ + 1]
  IN [logEvent(pushed, "PERFORMANCE_ALERT", source, alertEventSeverity(severity))
        EXCEPT !.ret = alertId]

recordMetric(o, metric, value, source) ==
  LET performanceMetric == [id |-> NewId("metric", o), timestamp |-> now, metric |-> metric,
                            value |-> value, source |-> source]
      pushed == [o EXCEPT !.metrics = slice(Append(@, performanceMetric), MetricCap),
                          !.serial = @ + 1]
  IN checkPerformanceThresholds(pushed, metric, value, source)

\* checkPerformanceThresholds that compares with > : a value that is exactly
\* a threshold does not reach it.
checkPerformanceThresholds_above(o, metric, value, source) ==
  IF metric \notin DOMAIN thresholds
    THEN o
  ELSE IF value > thresholds[metric].critical
    THEN createAlert(o, "performance", "critical", source)
  ELSE IF value > thresholds[metric].warning
    THEN createAlert(o, "performance", "medium", source)
  ELSE o

checkPerformanceThresholds(o, metric, value, source) ==
  IF metric \notin DOMAIN thresholds
    THEN o
  ELSE IF value >= thresholds[metric].critical
    THEN createAlert(o, "performance", "critical", source)
  ELSE IF value >= thresholds[metric].warning
    THEN createAlert(o, "performance", "medium", source)
  ELSE o

\* The engine as a call finds it, and as the call leaves it.
Engine(random) ==
  [events |-> events, metrics |-> metrics, alerts |-> alerts, serial |-> serial,
   invoked |-> << >>, random |-> random, ret |-> ""]

Leave(o) ==
  /\ events' = o.events
  /\ metrics' = o.metrics
  /\ alerts' = o.alerts
  /\ serial' = o.serial
  /\ invoked' = o.invoked

logEventCall(type, source, severity, random) ==
  LET o == logEvent(Engine(random), type, source, severity)
  IN /\ Leave(o)
     /\ Report("logEvent", type, NoError, o.ret)
     /\ UNCHANGED <<auditLogs, eventListeners>>

recordMetricCall(metric, value, source) ==
  LET o == recordMetric(Engine(0), metric, value, source)
  IN /\ Leave(o)
     /\ Report("recordMetric", <<metric, value>>, NoError, NoRet)
     /\ UNCHANGED <<auditLogs, eventListeners>>

createAlertCall(type, severity, source) ==
  LET o == createAlert(Engine(0), type, severity, source)
  IN /\ Leave(o)
     /\ Report("createAlert", severity, NoError, o.ret)
     /\ UNCHANGED <<auditLogs, eventListeners>>

\* alerts.find((a) => a.id === alertId): the index of the first, or 0.
findAlert(alertId) ==
  LET found == {i \in DOMAIN alerts : alerts[i].id = alertId}
  IN IF found = {} THEN 0 ELSE CHOOSE i \in found : \A j \in found : i <= j

\* resolveAlert without its test of alert.resolved.
resolveAlert_again(alertId, resolvedBy) ==
  LET i == findAlert(alertId)
  IN /\ IF i = 0
          THEN /\ UNCHANGED <<events, metrics, alerts, serial>>
               /\ invoked' = << >>
          ELSE Leave(logEvent([Engine(0) EXCEPT !.alerts[i].resolved = TRUE,
                                                !.alerts[i].resolvedAt = now,
                                                !.alerts[i].resolvedBy = resolvedBy],
                              "PERFORMANCE_ALERT", alerts[i].source, "info"))
     /\ Report("resolveAlert", <<alertId, resolvedBy>>, NoError, NoRet)
     /\ UNCHANGED <<auditLogs, eventListeners>>

resolveAlert(alertId, resolvedBy) ==
  LET i == findAlert(alertId)
  IN /\ IF i = 0 \/ (i # 0 /\ alerts[i].resolved)
          THEN /\ UNCHANGED <<events, metrics, alerts, serial>>
               /\ invoked' = << >>
          ELSE Leave(logEvent([Engine(0) EXCEPT !.alerts[i].resolved = TRUE,
                                                !.alerts[i].resolvedAt = now,
                                                !.alerts[i].resolvedBy = resolvedBy],
                              "PERFORMANCE_ALERT", alerts[i].source, "info"))
     /\ Report("resolveAlert", <<alertId, resolvedBy>>, NoError, NoRet)
     /\ UNCHANGED <<auditLogs, eventListeners>>

\* A query's fields are tested for truth before they are used: a start or end
\* time of 0 and an empty list are a field left out, and so are an offset and
\* a limit of 0 (query.offset || 0, query.limit || 100).
Range(list) == {list[i] : i \in DOMAIN list}

RECURSIVE sortNewestFirst(_)
\* array.sort((a, b) => b.timestamp - a.timestamp), which is stable: entries
\* of one timestamp keep their order.
sortNewestFirst(array) ==
  IF array = << >>
    THEN << >>
    ELSE LET x == array[Len(array)]
             sorted == sortNewestFirst(SubSeq(array, 1, Len(array) - 1))
             ahead == {i \in DOMAIN sorted : sorted[i].timestamp >= x.timestamp}
             k == IF ahead = {} THEN 0 ELSE CHOOSE i \in ahead : \A j \in ahead : j <= i
         IN SubSeq(sorted, 1, k) \o << x >> \o SubSeq(sorted, k + 1, Len(sorted))

\* array.slice(start, end) for 0 <= start <= end
sliceRange(array, start, end) ==
  SubSeq(array, start + 1, IF end < Len(array) THEN end ELSE Len(array))

eventMatches(e, query) ==
  /\ query.startTime # 0 => e.timestamp >= query.startTime
  /\ query.endTime # 0 => e.timestamp <= query.endTime
  /\ Len(query.eventTypes) > 0 => e.type \in Range(query.eventTypes)
  /\ Len(query.sources) > 0 => e.source \in Range(query.sources)
  /\ Len(query.severities) > 0 => e.severity \in Range(query.severities)

queryEvents(query) ==
  LET filteredEvents == sortNewestFirst(SelectSeq(events, LAMBDA e : eventMatches(e, query)))
      offset == query.offset
      limit == IF query.limit # 0 THEN query.limit ELSE 100
  IN sliceRange(filteredEvents, offset, offset + limit)

metricMatches(m, query) ==
  /\ query.startTime # 0 => m.timestamp >= query.startTime
  /\ query.endTime # 0 => m.timestamp <= query.endTime
  /\ Len(query.metrics) > 0 => m.metric \in Range(query.metrics)
  /\ Len(query.sources) > 0 => m.source \in Range(query.sources)

\* queryMetrics reads neither query.offset nor query.limit.
queryMetrics(query) ==
  sortNewestFirst(SelectSeq(metrics, LAMBDA m : metricMatches(m, query)))

\* A query changes nothing; the step notes what it returned.
queryEventsCall(query) ==
  /\ Report("queryEvents", query, NoError, queryEvents(query))
  /\ invoked' = << >>
  /\ UNCHANGED <<events, metrics, alerts, auditLogs, eventListeners, serial>>

queryMetricsCall(query) ==
  /\ Report("queryMetrics", query, NoError, queryMetrics(query))
  /\ invoked' = << >>
  /\ UNCHANGED <<events, metrics, alerts, auditLogs, eventListeners, serial>>

\* failedChecks <= 2 ? "degraded": two failed checks are not yet critical.
healthStatus_lenient(failedChecks) ==
  IF failedChecks = 0 THEN "healthy"
  ELSE IF failedChecks <= 2 THEN "degraded" ELSE "critical"

\* failedChecks === 0 ? "healthy" : failedChecks <= 1 ? "degraded" : "critical"
healthStatus(failedChecks) ==
  IF failedChecks = 0 THEN "healthy"
  ELSE IF failedChecks <= 1 THEN "degraded" ELSE "critical"

\* spanEngine.getAllSpans(), securityGovernance.getPendingApprovals() and
\* this.getAlerts(false), each counted.
getSystemHealth ==
  LET pendingApprovals == {i \in DOMAIN approvals : approvals[i].status = "pending"}
      unresolvedAlerts == {i \in DOMAIN alerts : ~alerts[i].resolved}
      checks == << [name |-> "Span Engine",
                    status |-> IF Len(spans) < 100 THEN "pass" ELSE "fail"],
                   [name |-> "Security Engine",
                    status |-> IF Cardinality(pendingApprovals) < 10 THEN "pass" ELSE "fail"],
                   [name |-> "Active Alerts",
                    status |-> IF Cardinality(unresolvedAlerts) < 5 THEN "pass" ELSE "fail"] >>
      failedChecks == Cardinality({i \in DOMAIN checks : checks[i].status = "fail"})
  IN [status |-> healthStatus(failedChecks), checks |-> checks, lastCheck |-> now]

getSystemHealthCall ==
  /\ Report("getSystemHealth", "", NoError, getSystemHealth)
  /\ invoked' = << >>
  /\ UNCHANGED <<events, metrics, alerts, auditLogs, eventListeners, serial>>

logAudit(userId, action, outcome) ==
  LET auditId == "audit_" \o ToString(now) \o "_" \o ToString(serial)
      auditLog == [id |-> auditId, timestamp |-> now, userId |-> userId, action |-> action,
                   outcome |-> outcome]
  IN /\ auditLogs' = slice(Append(auditLogs, auditLog), AuditCap)
     /\ serial' = serial + 1
     /\ invoked' = << >>
     /\ Report("logAudit", userId, NoError, auditId)
     /\ UNCHANGED <<events, metrics, alerts, eventListeners>>

\* listeners.indexOf(listener) and splice: the first registration of the
\* listener goes, if there is one.
removeEventListener(type, id) ==
  LET listeners == eventListeners[type]
      found == {i \in DOMAIN listeners : listeners[i].id = id}
      index == IF found = {} THEN 0 ELSE CHOOSE i \in found : \A j \in found : i <= j
  IN /\ eventListeners' =
          IF index = 0
            THEN eventListeners
            ELSE [eventListeners EXCEPT ![type] =
                    SubSeq(listeners, 1, index - 1) \o SubSeq(listeners, index + 1, Len(listeners))]
     /\ invoked' = << >>
     /\ Report("removeEventListener", type, NoError, NoRet)
     /\ UNCHANGED <<events, metrics, alerts, auditLogs, serial>>

addEventListener(type, kind) ==
  /\ eventListeners' = [eventListeners EXCEPT ![type] = Append(@, Listener(serial, kind))]
  /\ serial' = serial + 1
  /\ invoked' = << >>
  /\ Report("addEventListener", type, NoError, NoRet)
  /\ UNCHANGED <<events, metrics, alerts, auditLogs>>

(* --------------------------- unified timeline -------------------------- *)
\* UnifiedTimeline keeps its own map of events and a map from trace id to the
\* list of event ids; both are sequences of records in insertion order, as
\* the governance maps are.

RECURSIVE sortOldestFirst(_)
\* array.sort((a, b) => a.timestamp - b.timestamp), stable
sortOldestFirst(array) ==
  IF array = << >>
    THEN << >>
    ELSE LET x == array[Len(array)]
             sorted == sortOldestFirst(SubSeq(array, 1, Len(array) - 1))
             ahead == {i \in DOMAIN sorted : sorted[i].timestamp <= x.timestamp}
             k == IF ahead = {} THEN 0 ELSE CHOOSE i \in ahead : \A j \in ahead : j <= i
         IN SubSeq(sorted, 1, k) \o << x >> \o SubSeq(sorted, k + 1, Len(sorted))

\* getTrace on the maps given: the trace's ids, each replaced by its event,
\* those that have none left out, oldest first.
getTrace(eventMap, traceMap, traceId) ==
  LET eventIds == IF MapHas(traceMap, traceId) THEN MapGet(traceMap, traceId).eventIds ELSE << >>
      known == SelectSeq(eventIds, LAMBDA id : MapHas(eventMap, id))
  IN sortOldestFirst([i \in DOMAIN known |-> MapGet(eventMap, known[i])])

\* this.traces.get(traceId)!.push(eventId), after the set of an empty list
\* when the trace is not there.
pushToTrace(traceMap, traceId, eventId) ==
  LET eventIds == IF MapHas(traceMap, traceId) THEN MapGet(traceMap, traceId).eventIds ELSE << >>
  IN MapSet(traceMap, traceId, [id |-> traceId, eventIds |-> Append(eventIds, eventId)])

\* UnifiedTimeline.logEvent: the event is stored, put on its trace if it names
\* one, and logged to the observability engine as well, under an id of that
\* engine's own.
unifiedLogEvent(traceId) ==
  LET eventId == NewId("event", Engine(0))
      event == [id |-> eventId, timestamp |-> now, type |-> "system_event", traceId |-> traceId]
      o == logEvent([Engine(0) EXCEPT !.serial = @ + 1], "system_event", "unified_timeline", "info")
  IN /\ unifiedEvents' = MapSet(unifiedEvents, eventId, event)
     /\ traces' = IF traceId # "" THEN pushToTrace(traces, traceId, eventId) ELSE traces
     /\ Leave(o)
     /\ Report("unifiedLogEvent", traceId, NoError, eventId)
     /\ UNCHANGED <<auditLogs, eventListeners>>

RECURSIVE linkEach(_, _, _, _)
\* The loop of linkEvents from its i-th id on, on the two maps.
linkEach(maps, eventIds, i, traceId) ==
  IF i > Len(eventIds)
    THEN maps
  ELSE IF ~MapHas(maps.events, eventIds[i])
    THEN linkEach(maps, eventIds, i + 1, traceId)
  ELSE linkEach([events |-> MapSet(maps.events, eventIds[i],
                                   [MapGet(maps.events, eventIds[i]) EXCEPT !.traceId = traceId]),
                 traces |-> pushToTrace(maps.traces, traceId, eventIds[i])],
                eventIds, i + 1, traceId)

\* linkEvents(eventIds, traceId?): "" is the trace id left out, and then
\* createTrace makes a new trace, empty.
linkEvents(eventIds, traceId) ==
  LET created == traceId = ""
      finalTraceId == IF created THEN NewId("trace", Engine(0)) ELSE traceId
      start == [events |-> unifiedEvents,
                traces |-> IF created
                             THEN MapSet(traces, finalTraceId, [id |-> finalTraceId, eventIds |-> << >>])
                             ELSE traces]
      linked == linkEach(start, eventIds, 1, finalTraceId)
  IN /\ unifiedEvents' = linked.events
     /\ traces' = linked.traces
     /\ serial' = IF created THEN serial + 1 ELSE serial
     /\ invoked' = << >>
     /\ Report("linkEvents", <<eventIds, traceId>>, NoError, finalTraceId)
     /\ UNCHANGED <<events, metrics, alerts, auditLogs, eventListeners>>

getTraceCall(traceId) ==
  /\ Report("getTrace", traceId, NoError, getTrace(unifiedEvents, traces, traceId))
  /\ invoked' = << >>
  /\ UNCHANGED <<events, metrics, alerts, auditLogs, eventListeners, serial, unifiedEvents, traces>>

(* ------------------------------- the clock ----------------------------- *)
Tick ==
  /\ now < MaxTime
  /\ now' = now + 1
  /\ UNCHANGED <<engineVars, obsVars>>
  /\ UNCHANGED <<govVars, obsVars>>

(* ---------------------------- specifications --------------------------- *)
CoreInit ==
  /\ spans = <<>>
  /\ operations = <<>>
  /\ timeline = <<>>
  /\ inflight = {}
  /\ last = [op |-> "constructor", spanId |-> 0, outcome |-> "ok", at |-> 0]
  /\ now = 1
  /\ policies = defaultPolicies
  /\ approvals = <<>>
  /\ currentUser = "user_default"
  /\ result = [op |-> "constructor", arg |-> "", err |-> NoError, ret |-> NoRet]
  /\ eventListeners = defaultListeners
  /\ invoked = << >>
  /\ obsCalls = 0
  /\ unifiedEvents = << >>
  /\ traces = << >>

\* The stores of a fresh engine.
Init ==
  /\ CoreInit
  /\ events = << >>
  /\ metrics = << >>
  /\ alerts = << >>
  /\ auditLogs = << >>
  /\ serial = FirstSerial

\* The span engine on its own.  It never reads the clock to decide anything;
\* Spec holds the clock still (every call within one millisecond) so that the
\* timeline's histories stay enumerable.  SpecGov, whose identifiers are
\* derived from the clock, lets it advance.
CreateSpan ==
  /\ \E type \in EngineTypes, hasRollback \in BOOLEAN, parentId \in {NoParent} \cup DOMAIN spans :
       createSpan(type, Operation(hasRollback, PlainText), parentId)
  /\ UNCHANGED <<govVars, obsVars>>
SimulateSpanCall == (\E spanId \in SpanIdInputs : simulateSpanCall(spanId)) /\ UNCHANGED <<govVars, obsVars>>
SimulateSpanResolve == (\E c \in inflight : simulateSpanResolve(c)) /\ UNCHANGED <<govVars, obsVars>>
SimulateSpanReject == (\E c \in inflight : simulateSpanReject(c)) /\ UNCHANGED <<govVars, obsVars>>
ExecuteSpanCall == (\E spanId \in SpanIdInputs : executeSpanCall(spanId)) /\ UNCHANGED <<govVars, obsVars>>
ExecuteSpanResolve == (\E c \in inflight : executeSpanResolve(c)) /\ UNCHANGED <<govVars, obsVars>>
ExecuteSpanReject == (\E c \in inflight : executeSpanReject(c)) /\ UNCHANGED <<govVars, obsVars>>
RollbackSpanCall == (\E spanId \in SpanIdInputs : rollbackSpanCall(spanId)) /\ UNCHANGED <<govVars, obsVars>>
RollbackSpanResolve == (\E c \in inflight : rollbackSpanResolve(c)) /\ UNCHANGED <<govVars, obsVars>>
RollbackSpanReject == (\E c \in inflight : rollbackSpanReject(c)) /\ UNCHANGED <<govVars, obsVars>>

Next ==
  \/ CreateSpan
  \/ SimulateSpanCall
  \/ SimulateSpanResolve
  \/ SimulateSpanReject
  \/ ExecuteSpanCall
  \/ ExecuteSpanResolve
  \/ ExecuteSpanReject
  \/ RollbackSpanCall
  \/ RollbackSpanResolve
  \/ RollbackSpanReject

Spec == Init /\ [][Next]_vars

\* Governance: spans are created and then only read.

\* Policies updatePolicy is called on: the default that starts disabled and
\* the ones createPolicy may have added (or not yet: an unknown id).
PolicyIdInputs == {"business-hours"} \cup {"policy_" \o ToString(t) : t \in 1..MaxTime}

\* Types createSpan is called with in the governance specifications: with and
\* without a rollback procedure they span the four risk levels.
GovTypes == {"navigation", "write"}

\* The two ends of the scale: a reversible navigation (low risk) and a write
\* that cannot be undone (critical).
PolicySpanInputs == {<<"navigation", TRUE>>, <<"write", FALSE>>}

GovCreateSpan ==
  /\ \E type \in GovTypes, hasRollback \in BOOLEAN :
       createSpan(type, Operation(hasRollback, PlainText), NoParent)
  /\ Report("createSpan", "", NoError, NoRet)
  /\ UNCHANGED <<policies, approvals, currentUser, obsVars>>
PolicyCreateSpan ==
  /\ \E input \in PolicySpanInputs :
       createSpan(input[1], Operation(input[2], PlainText), NoParent)
  /\ Report("createSpan", "", NoError, NoRet)
  /\ UNCHANGED <<policies, approvals, currentUser, obsVars>>
CreatePolicy == (\E policy \in PolicyInputs : createPolicy(policy)) /\ UNCHANGED <<engineVars, obsVars>>
UpdatePolicy ==
  /\ \E policyId \in PolicyIdInputs, enabled \in BOOLEAN : updatePolicy(policyId, enabled)
  /\ UNCHANGED <<engineVars, obsVars>>
Evaluate == (\E spanId \in SpanIdInputs : evaluate(spanId)) /\ UNCHANGED <<engineVars, obsVars>>
RequestApproval == (\E spanId \in SpanIdInputs : requestApproval(spanId)) /\ UNCHANGED <<engineVars, obsVars>>
ValidateSpanExecution ==
  (\E spanId \in SpanIdInputs : validateSpanExecution(spanId)) /\ UNCHANGED <<engineVars, obsVars>>

\* Approvals: spans are validated and approvals requested under the default
\* policies, of which business-hours can be switched on and off.
GovNext ==
  \/ GovCreateSpan
  \/ UpdatePolicy
  \/ Evaluate
  \/ RequestApproval
  \/ ValidateSpanExecution
  \/ Tick

SpecGov == Init /\ [][GovNext]_vars

\* Policies: policies are added and switched on and off, and spans evaluated
\* against them.
PolicyNext ==
  \/ PolicyCreateSpan
  \/ CreatePolicy
  \/ UpdatePolicy
  \/ Evaluate
  \/ Tick

SpecPolicy == Init /\ [][PolicyNext]_vars

\* Approvals: approvals are requested for spans of the four risk levels and
\* decided by the approvers and by a user who is none.  The clock is held
\* still, as in Spec: every request is made and decided within one
\* millisecond, under one approval id; the other ids are unknown.
ApprovalIdInputs == {"approval_" \o ToString(t) : t \in 1..MaxTime}
UserIdInputs == {"approver_1", "approver_2", "security_admin", "user_default"}
CommentInputs == {"seen"}

ApproveSpan ==
  /\ \E approvalId \in ApprovalIdInputs, userId \in UserIdInputs, comment \in CommentInputs :
       approveSpan(approvalId, userId, comment)
  /\ UNCHANGED <<engineVars, obsVars>>
RejectSpan ==
  /\ \E approvalId \in ApprovalIdInputs, userId \in UserIdInputs, comment \in CommentInputs :
       rejectSpan(approvalId, userId, comment)
  /\ UNCHANGED <<engineVars, obsVars>>

ApprovalNext ==
  \/ GovCreateSpan
  \/ RequestApproval
  \/ ApproveSpan
  \/ RejectSpan

SpecApproval == Init /\ [][ApprovalNext]_vars

\* Expiry: the approvals of SpecApproval, and a wait that takes the clock
\* past the expiry of every approval requested before it.
Elapse ==
  /\ now <= MaxTime
  /\ now' = now + ExpiryWindow + 1
  /\ UNCHANGED <<engineVars, obsVars>>
  /\ UNCHANGED <<govVars, obsVars>>

ExpiryNext ==
  \/ GovCreateSpan
  \/ RequestApproval
  \/ ApproveSpan
  \/ RejectSpan
  \/ Elapse

SpecExpiry == Init /\ [][ExpiryNext]_vars

\* The engine next to governance: irreversible writes, which are of critical
\* risk, are created, simulated and executed while they are validated and
\* the approval that validation asked for is rejected, by one of its
\* approvers or by somebody else.  The clock is held still.
FlowUserInputs == {"approver_1", "user_default"}

FlowRejectSpan ==
  /\ \E userId \in FlowUserInputs, comment \in CommentInputs :
       rejectSpan("approval_" \o ToString(now), userId, comment)
  /\ UNCHANGED <<engineVars, obsVars>>

FlowCreateSpan ==
  /\ createSpan("write", Operation(FALSE, PlainText), NoParent)
  /\ UNCHANGED <<govVars, obsVars>>

FlowNext ==
  \/ FlowCreateSpan
  \/ SimulateSpanCall
  \/ SimulateSpanResolve
  \/ ExecuteSpanCall
  \/ ExecuteSpanResolve
  \/ ValidateSpanExecution
  \/ FlowRejectSpan

SpecFlow == Init /\ [][FlowNext]_vars

\* Risk: spans of every type, with and without a rollback procedure, are
\* created and assessed, directly and by requestApproval.
RiskCreateSpan ==
  /\ \E type \in SpanType, hasRollback \in BOOLEAN :
       createSpan(type, Operation(hasRollback, PlainText), NoParent)
  /\ Report("createSpan", "", NoError, NoRet)
  /\ UNCHANGED <<policies, approvals, currentUser, obsVars>>
AssessSpanRisk == (\E spanId \in SpanIdInputs : assess(spanId)) /\ UNCHANGED <<engineVars, obsVars>>

RiskNext ==
  \/ RiskCreateSpan
  \/ AssessSpanRisk
  \/ RequestApproval
  \/ Tick

SpecRisk == Init /\ [][RiskNext]_vars

\* PII: read spans are created with and without an email address in what
\* they carry, and evaluated and validated under the default policies and
\* the policies added.
PiiDescriptions == { PlainText, << "text", "email" >> }

PiiCreateSpan ==
  /\ \E description \in PiiDescriptions :
       createSpan("read", Operation(TRUE, description), NoParent)
  /\ Report("createSpan", "", NoError, NoRet)
  /\ UNCHANGED <<policies, approvals, currentUser, obsVars>>

PiiNext ==
  \/ PiiCreateSpan
  \/ CreatePolicy
  \/ Evaluate
  \/ ValidateSpanExecution
  \/ Tick

SpecPii == Init /\ [][PiiNext]_vars

TypeOK ==
  /\ \A s \in DOMAIN spans : spans[s].status \in SpanStatus /\ spans[s].type \in SpanType
  /\ last.outcome \in Outcomes
  /\ \A c \in inflight : c.op \in Methods /\ c.spanId \in DOMAIN spans

\* Observability calls leave the span engine, governance and the unified
\* timeline alone; no more than MaxObsCalls are made.
ObsCall ==
  /\ obsCalls < MaxObsCalls
  /\ obsCalls' = obsCalls + 1
  /\ UNCHANGED <<engineVars, now, policies, approvals, currentUser, unifiedEvents, traces>>

\* Retention: one of the three stores starts one entry short of its cap, as
\* cap - 1 calls on a fresh engine leave it (logEvent of a type without
\* listeners, recordMetric of a metric without thresholds, logAudit), and
\* events are logged, with and without a listener that raises an alert and so
\* logs a second event, metrics recorded, with and without an alert, and
\* audit records written.
Filled(prefix, n, entry) ==
  [k \in 1..n |-> [entry EXCEPT !.id = prefix \o "_" \o ToString(1) \o "_" \o
                                         ToString(FirstSerial + k - 1)]]

RingInit ==
  /\ CoreInit
  /\ alerts = << >>
  /\ \E store \in {"events", "metrics", "auditLogs"} :
       /\ events = IF store = "events"
                     THEN Filled("event", EventCap - 1,
                                 [id |-> "", timestamp |-> 1, type |-> "PERFORMANCE_ALERT",
                                  source |-> "system", severity |-> "info"])
                     ELSE << >>
       /\ metrics = IF store = "metrics"
                      THEN Filled("metric", MetricCap - 1,
                                  [id |-> "", timestamp |-> 1, metric |-> "active_spans",
                                   value |-> 0, source |-> "span_engine"])
                      ELSE << >>
       /\ auditLogs = IF store = "auditLogs"
                        THEN Filled("audit", AuditCap - 1,
                                    [id |-> "", timestamp |-> 1, userId |-> "user_default",
                                     action |-> "login", outcome |-> "success"])
                        ELSE << >>
       /\ serial = FirstSerial + Len(events) + Len(metrics) + Len(auditLogs)

RingEventTypes == {"PERFORMANCE_ALERT", "SECURITY_VIOLATION"}
RingMetricInputs == { <<"active_spans", 1>>, <<"cpu_usage", 97>> }

RingLogEvent ==
  /\ \E type \in RingEventTypes : logEventCall(type, "system", "info", 0)
  /\ ObsCall
RingRecordMetric ==
  /\ \E input \in RingMetricInputs : recordMetricCall(input[1], input[2], "system")
  /\ ObsCall
LogAudit ==
  /\ logAudit("user_default", "login", "success")
  /\ ObsCall

RingNext ==
  \/ RingLogEvent
  \/ RingRecordMetric
  \/ LogAudit

SpecRing == RingInit /\ [][RingNext]_vars

(* ===================== span lifecycle: properties ====================== *)
\* This step is one of the engine's.
EngineStep == last' # last \/ timeline' # timeline

\* In this step method op was called on span s (and accepted or refused).
CallStep(op, s) ==
  /\ EngineStep
  /\ last'.op = op
  /\ last'.spanId = s
  /\ inflight \subseteq inflight'

\* In this step the bound procedure of suspended call c returned or threw.
SettleStep(c) == c \in inflight /\ c \notin inflight'

LegalEdges == {<<"pending", "simulating">>,
               <<"simulating", "awaiting_approval">>,
               <<"simulating", "failed">>,
               <<"awaiting_approval", "executing">>,
               <<"executing", "completed">>,
               <<"executing", "failed">>,
               <<"completed", "rolled_back">>}

\* C1: every change of a span's status is one of the seven legal edges of the
\* lifecycle (so a simulateSpan on a span that is not pending changes nothing).
C1_OnlyLegalTransitions ==
  [][\A s \in DOMAIN spans :
       spans'[s].status # spans[s].status
         => <<spans[s].status, spans'[s].status>> \in LegalEdges]_vars

\* The calls accepted on span s before the timeline had grown past n entries,
\* createSpan included, as the entries they logged when they started.
HistoryBefore(s, n) ==
  LET prior == SelectSeq(SubSeq(timeline, 1, n),
                         LAMBDA e : /\ e.spanId = s
                                    /\ e.event \in Started \cup {"span_created"})
  IN [i \in 1..Len(prior) |-> prior[i].event]

\* C2: an executeSpan that succeeded was preceded on its span by exactly
\* createSpan then simulateSpan, and by no earlier executeSpan.
C2_ExecuteOnlyAfterCreateSimulate ==
  (last.op = "execute" /\ last.outcome = "ok")
    => HistoryBefore(last.spanId, last.at) = <<"span_created", "simulation_started">>

\* C3: executeSpan on a span that is not awaiting_approval throws NotReady,
\* starts no forward procedure and leaves the span (status and end timestamp
\* included) and the timeline as they were.
C3_ExecuteNotReady ==
  [][\A s \in DOMAIN spans :
       (CallStep("execute", s) /\ spans[s].status # "awaiting_approval")
         => /\ last'.outcome = "NotReady"
            /\ inflight' = inflight
            /\ spans' = spans
            /\ timeline' = timeline]_vars

C3_Witness ==
  /\ last.op = "execute"
  /\ last.outcome = "NotReady"
  /\ spans[last.spanId].status = "completed"

\* C4: an accepted executeSpan has made the span executing by the time the
\* forward procedure is in flight; when the procedure returns the span is
\* completed and when it throws the span is failed and the error is re-raised,
\* in both cases with the end timestamp set to the current time.
C4_ExecuteOutcome ==
  [][/\ \A s \in DOMAIN spans :
          (CallStep("execute", s) /\ inflight' # inflight)
            => /\ spans'[s].status = "executing"
               /\ last'.outcome = "pending"
     /\ \A c \in inflight :
          (SettleStep(c) /\ c.op = "execute")
            => LET after == spans'[c.spanId]
               IN /\ last'.op = "execute"
                  /\ last'.outcome \in {"ok", "rethrown"}
                  /\ last'.outcome = "ok" => after.status = "completed"
                  /\ last'.outcome = "rethrown" => after.status = "failed"
                  /\ after.endTime = now
                  /\ after.endTime # NoTime]_vars

C4_Witness ==
  /\ last.op = "execute"
  /\ last.outcome = "rethrown"
  /\ spans[last.spanId].status = "failed"
  /\ spans[last.spanId].endTime # NoTime

\* C5: rollbackSpan on an existing span is accepted (its rollback procedure
\* started) exactly when the span is reversible and completed; otherwise it
\* throws NotReversible for a span that is not reversible and InvalidState for
\* a reversible span that is not completed, and changes neither the span nor
\* the timeline.
C5_RollbackAccepted ==
  [][\A s \in DOMAIN spans :
       CallStep("rollback", s)
         => LET ok == spans[s].reversible /\ spans[s].status = "completed"
            IN /\ (inflight' # inflight) <=> ok
               /\ (last'.outcome = "pending") <=> ok
               /\ ~ok => /\ spans' = spans
                         /\ timeline' = timeline
                         /\ last'.outcome =
                              IF ~spans[s].reversible THEN "NotReversible" ELSE "InvalidState"]_vars

\* rollbackSpan refused on a reversible span whose execution failed.
C5_Witness ==
  /\ last.op = "rollback"
  /\ last.outcome = "InvalidState"
  /\ spans[last.spanId].reversible
  /\ spans[last.spanId].status = "failed"
  /\ spans[last.spanId].endTime # NoTime

\* Positions of the timeline entries of span s that report event e.
Entries(s, e) == {i \in DOMAIN timeline : timeline[i].spanId = s /\ timeline[i].event = e}

\* C6: when the rollback procedure returns the span becomes rolled_back; when
\* it throws the error is re-raised and the span is left exactly as it was, so
\* a span that was completed is still completed and can be rolled back again.
C6_RollbackOutcome ==
  [][\A c \in inflight :
       (SettleStep(c) /\ c.op = "rollback")
         => /\ last'.op = "rollback"
            /\ last'.outcome \in {"ok", "rethrown"}
            /\ last'.outcome = "ok" => spans'[c.spanId].status = "rolled_back"
            /\ last'.outcome = "rethrown" => spans' = spans]_vars

\* A rollback procedure that threw: the error was re-raised and the span is
\* still completed and reversible, which is what rollbackSpan asks for.
C6_Witness ==
  /\ last.op = "rollback"
  /\ last.outcome = "rethrown"
  /\ Entries(last.spanId, "rollback_failed") # {}
  /\ rollbackReversible(spans[last.spanId], operations[last.spanId])
  /\ rollbackCompleted(spans[last.spanId])

\* C7: of two executeSpan calls issued on a span with nothing but each other in
\* between, at most one starts the forward procedure: two execution_started
\* entries of one span are always separated by a simulation_completed entry of
\* that span, the only entry that reports the span awaiting approval again.
C7_OneExecuteAccepted ==
  \A s \in DOMAIN spans :
    \A i, j \in Entries(s, "execution_started") :
      i < j => \E k \in Entries(s, "simulation_completed") : i < k /\ k < j

\* An executeSpan refused while the forward procedure of another is in flight.
C7_Witness ==
  /\ last.op = "execute"
  /\ last.outcome = "NotReady"
  /\ spans[last.spanId].status = "executing"
  /\ \E c \in inflight : c.op = "execute" /\ c.spanId = last.spanId

\* C8: no two bound procedures of one span are in flight at the same time.
C8_OneInFlightPerSpan ==
  \A c1, c2 \in inflight : c1 # c2 => c1.spanId # c2.spanId

(* ========================= governance: properties ====================== *)
\* The governance call op returned (did not throw) in this step.
Returned(op) == result' # result /\ result'.op = op /\ result'.err = NoError

\* Rule r of policy p is of the given kind and applies to span spanId.
Matches(p, r, kind, spanId) ==
  /\ policies[p].rules[r].type = kind
  /\ ruleApplies(policies[p].rules[r], spans[spanId], assessSpanRisk(spans[spanId]))

EnabledMatch(kind, spanId) ==
  \E p \in DOMAIN policies :
    /\ policies[p].enabled
    /\ \E r \in DOMAIN policies[p].rules : Matches(p, r, kind, spanId)

C10_DenyWins ==
  [][Returned("evaluate")
       => LET spanId == result'.arg
              ret == result'.ret
          IN /\ \A p \in DOMAIN policies : \A r \in DOMAIN policies[p].rules :
                  (policies[p].enabled /\ Matches(p, r, "deny", spanId))
                    => /\ ~ret.allowed
                       /\ \E v \in DOMAIN ret.violations :
                            ret.violations[v] = <<policies[p].name, policies[p].rules[r].action>>
             /\ EnabledMatch("require_approval", spanId) => ret.requiresApproval
             /\ ~ret.allowed => EnabledMatch("deny", spanId)
             /\ ret.requiresApproval
                  => (ret.contractRequired \/ EnabledMatch("require_approval", spanId))
             /\ \A a \in DOMAIN ret.applicablePolicies :
                  MapGet(policies, ret.applicablePolicies[a]).enabled]_vars

\* A denied write span under an enabled policy whose allow rule comes after
\* its deny rule, with a disabled policy whose deny rule applies as well.
C10_Witness ==
  /\ result.op = "evaluate"
  /\ result.err = NoError
  /\ ~result.ret.allowed
  /\ \E p \in DOMAIN policies :
       /\ policies[p].enabled
       /\ \E r1, r2 \in DOMAIN policies[p].rules :
            /\ r1 < r2
            /\ Matches(p, r1, "deny", result.arg)
            /\ Matches(p, r2, "allow", result.arg)
  /\ \E p \in DOMAIN policies :
       /\ ~policies[p].enabled
       /\ \E r \in DOMAIN policies[p].rules : Matches(p, r, "deny", result.arg)

\* C11: evaluate of a span created with PII in its payload, and with no
\* approved contract covering PII, answers piiDetected, contractRequired and
\* requiresApproval all TRUE, whatever the policies are.
C11_PiiForcesContract ==
  [][Returned("evaluate")
       => LET spanId == result'.arg
              ret == result'.ret
          IN (detectPII(operations[spanId].description).hasPII /\ ~hasApprovedPIIContract(spanId))
               => /\ ret.piiDetected
                  /\ ret.contractRequired
                  /\ ret.requiresApproval]_vars

\* The score and the level the risk table gives a span of this type and
\* reversibility.
TableScore(type, reversible) ==
  (IF type \in {"write", "gui_automation"} THEN 12 ELSE IF type = "navigation" THEN 6 ELSE 0)
    + (IF reversible THEN 0 ELSE 25)

TableLevel(score) ==
  IF score <= 10 THEN "low" ELSE IF score <= 20 THEN "medium" ELSE IF score <= 35 THEN "high" ELSE "critical"

\* C12: assessSpanRisk answers the score the table gives the span's type and
\* reversibility (12 for write and gui_automation, 6 for navigation, 0
\* otherwise, plus 25 when not reversible) and the level the thresholds 10, 20
\* and 35 give that score, so 37 and critical for a write that is not
\* reversible; and it answers what every assessment stored for the span
\* answered before.
C12_RiskIsTable ==
  [][Returned("assessSpanRisk")
       => LET span == spans[result'.arg]
              ret == result'.ret
          IN /\ ret.score = TableScore(span.type, span.reversible)
             /\ ret.level = TableLevel(ret.score)
             /\ (span.type = "write" /\ ~span.reversible)
                  => (ret.score = 37 /\ ret.level = "critical")
             /\ \A i \in DOMAIN approvals :
                  approvals[i].spanId = span.id
                    => /\ approvals[i].riskAssessment.score = ret.score
                       /\ approvals[i].riskAssessment.level = ret.level]_vars

\* A write that is not reversible, assessed after an approval was requested
\* for it: 37 and critical both times.
C12_Witness ==
  /\ result.op = "assessSpanRisk"
  /\ result.err = NoError
  /\ result.ret.score = 37
  /\ result.ret.level = "critical"
  /\ spans[result.arg].type = "write"
  /\ \E i \in DOMAIN approvals : approvals[i].spanId = result.arg

LevelRank(level) ==
  CASE level = "low" -> 0 [] level = "medium" -> 1 [] level = "high" -> 2 [] level = "critical" -> 3

ApproverIds(approval) == [i \in DOMAIN approval.approvers |-> approval.approvers[i].userId]

\* C13: the approval requestApproval stores lists as many approvers as the
\* rank of its risk level (none for low, 1 for medium, 2 for high, 3 for
\* critical), the security admin among them when critical; approvals of one
\* level list the same approvers, and a higher level never lists fewer.
C13_ApproversByLevel ==
  [][Returned("requestApproval")
       => LET a == MapGet(approvals', result'.ret.approvalId)
          IN /\ Len(a.approvers) = LevelRank(a.riskAssessment.level)
             /\ a.riskAssessment.level = "critical"
                  => \E i \in DOMAIN a.approvers : a.approvers[i].userId = "security_admin"
             /\ \A j \in DOMAIN approvals' :
                  LET b == approvals'[j]
                  IN /\ b.riskAssessment.level = a.riskAssessment.level
                          => ApproverIds(b) = ApproverIds(a)
                     /\ LevelRank(b.riskAssessment.level) <= LevelRank(a.riskAssessment.level)
                          => Len(b.approvers) <= Len(a.approvers)]_vars

\* An approval requested for a critical span: three approvers, the last the
\* security admin.
C13_Witness ==
  /\ result.op = "requestApproval"
  /\ result.err = NoError
  /\ LET a == MapGet(approvals, result.ret.approvalId)
     IN /\ a.riskAssessment.level = "critical"
        /\ ApproverIds(a) = << "approver_1", "approver_2", "security_admin" >>

(* ========================= approvals: properties ======================= *)
\* The governance call op was made in this step (and returned or threw).
Called(op) == result'.op = op /\ (result' # result \/ approvals' # approvals)

AllApproved(approval) ==
  \A i \in DOMAIN approval.approvers : approval.approvers[i].status = "approved"

Listed(approval, userId) ==
  \E i \in DOMAIN approval.approvers : approval.approvers[i].userId = userId

\* C14: in every state an approval is approved exactly when every approver
\* it lists has approved, an approval that lists none included.
C14_ApprovedIffAllApproved ==
  \A i \in DOMAIN approvals :
    (approvals[i].status = "approved") <=> AllApproved(approvals[i])

\* C15: rejectSpan by a listed approver on a pending approval makes the
\* approval rejected in that very step, and that approver rejected, whatever
\* the other approvers have decided; their entries are left as they were.
C15_RejectRejects ==
  [][(/\ Called("rejectSpan")
      /\ MapHas(approvals, result'.arg[1])
      /\ MapGet(approvals, result'.arg[1]).status = "pending"
      /\ Listed(MapGet(approvals, result'.arg[1]), result'.arg[2]))
       => LET before == MapGet(approvals, result'.arg[1])
              after == MapGet(approvals', result'.arg[1])
          IN /\ result'.err = NoError
             /\ after.status = "rejected"
             /\ \A i \in DOMAIN before.approvers :
                  IF before.approvers[i].userId = result'.arg[2]
                    THEN after.approvers[i].status = "rejected"
                    ELSE after.approvers[i] = before.approvers[i]]_vars

\* Two approvers approved, then the third rejected: the approval is rejected.
C15_Witness ==
  /\ result.op = "rejectSpan"
  /\ result.err = NoError
  /\ LET a == MapGet(approvals, result.arg[1])
     IN /\ a.status = "rejected"
        /\ Len(a.approvers) = 3
        /\ a.approvers[1].status = "approved"
        /\ a.approvers[2].status = "approved"
        /\ a.approvers[3].status = "rejected"
        /\ a.approvers[3].userId = result.arg[2]

\* C16: approveSpan and rejectSpan on an approval that is no longer pending
\* throw InvalidApprovalState and change nothing, so that an approved approval
\* stays approved and a rejected one rejected.
C16_DecidedIsFinal ==
  [][((Called("approveSpan") \/ Called("rejectSpan"))
        /\ MapHas(approvals, result'.arg[1])
        /\ MapGet(approvals, result'.arg[1]).status # "pending")
       => /\ result'.err = "InvalidApprovalState"
          /\ approvals' = approvals]_vars

\* C17: approveSpan throws NotFound for an approval id that is not stored, and
\* throws (NotAnApprover while the approval is pending) for a user the
\* approval does not list; either way the approvals are left as they were.
C17_ApproveRefused ==
  [][Called("approveSpan")
       => LET approvalId == result'.arg[1]
              userId == result'.arg[2]
          IN /\ ~MapHas(approvals, approvalId)
                  => /\ result'.err = "NotFound"
                     /\ approvals' = approvals
             /\ (MapHas(approvals, approvalId) /\ ~Listed(MapGet(approvals, approvalId), userId))
                  => /\ result'.err \in {"NotAnApprover", "InvalidApprovalState"}
                     /\ MapGet(approvals, approvalId).status = "pending"
                          => result'.err = "NotAnApprover"
                     /\ approvals' = approvals]_vars

\* approveSpan by a user who is no approver of a pending approval on which
\* one of the approvers it lists has already approved.
C17_Witness ==
  /\ result.op = "approveSpan"
  /\ result.err = "NotAnApprover"
  /\ LET a == MapGet(approvals, result.arg[1])
     IN /\ a.status = "pending"
        /\ ~Listed(a, result.arg[2])
        /\ \E i \in DOMAIN a.approvers : a.approvers[i].status = "approved"

C19_DefaultsRequireApproval ==
  [][LET highRisk(span) ==
           TableLevel(TableScore(span.type, span.reversible)) \in {"high", "critical"}
         irreversibleWrite(span) == span.type = "write" /\ ~span.reversible
         defaultOn == /\ MapHas(policies, "high-risk-approval")
                      /\ MapGet(policies, "high-risk-approval").enabled
     IN /\ (Returned("evaluate") /\ defaultOn)
             => /\ highRisk(spans[result'.arg]) => result'.ret.requiresApproval
                /\ irreversibleWrite(spans[result'.arg]) => result'.ret.requiresApproval
        /\ (Returned("validate") /\ defaultOn /\ irreversibleWrite(spans[result'.arg]))
             => (result'.ret.canExecute = FALSE
                   /\ (result'.ret.requiresApproval \/ result'.ret.violations # << >>))
        /\ ((Returned("requestApproval")
               \/ (Returned("validate") /\ result'.ret.requiresApproval))
             /\ irreversibleWrite(spans[result'.arg]))
             => ApproverIds(MapGet(approvals', result'.ret.approvalId))
                  = << "approver_1", "approver_2", "security_admin" >>]_vars

\* A write that is not reversible, validated under the default policies: an
\* approval by three approvers, the security admin the third, is required.
C19_Witness ==
  /\ result.op = "validate"
  /\ result.err = NoError
  /\ result.ret.requiresApproval
  /\ spans[result.arg].type = "write"
  /\ ~spans[result.arg].reversible
  /\ MapGet(approvals, result.ret.approvalId).approvers[3].userId = "security_admin"
  /\ ~MapGet(policies, "business-hours").enabled

(* ==================== the engine and governance: properties ============ *)
\* C20: executeSpan never asks governance: called on a span that is awaiting
\* approval it is accepted and makes the span executing, whether the span was
\* never validated or has an approval that is pending or rejected, and once
\* the forward procedure returns the span is completed.
C20_ExecuteBypassesGovernance ==
  [][/\ \A s \in DOMAIN spans :
          (CallStep("execute", s) /\ spans[s].status = "awaiting_approval")
            => /\ last'.outcome = "pending"
               /\ spans'[s].status = "executing"
               /\ approvals' = approvals
     /\ \A c \in inflight :
          (SettleStep(c) /\ c.op = "execute" /\ last'.outcome = "ok")
            => spans'[c.spanId].status = "completed"]_vars

\* A span that was executed to completion although validateSpanExecution
\* asked for an approval of it and that approval was rejected.
C20_Witness ==
  /\ last.op = "execute"
  /\ last.outcome = "ok"
  /\ spans[last.spanId].status = "completed"
  /\ \E i \in DOMAIN approvals :
       /\ approvals[i].spanId = last.spanId
       /\ approvals[i].status = "rejected"
       /\ approvals[i].riskAssessment.level = "critical"

(* ========================== expiry: properties ========================= *)
ApprovalStatus == {"pending", "approved", "rejected"}

\* C21: no approval ever has overall status expired, and approveSpan by a
\* listed approver on a pending approval whose expiry timestamp has passed is
\* accepted as on any other pending approval: the approver's entry becomes
\* approved, and the approval approved once all of them have.
C21_NeverExpired ==
  /\ [](\A i \in DOMAIN approvals : approvals[i].status \in ApprovalStatus)
  /\ [][(/\ Called("approveSpan")
          /\ MapHas(approvals, result'.arg[1])
          /\ MapGet(approvals, result'.arg[1]).status = "pending"
          /\ Listed(MapGet(approvals, result'.arg[1]), result'.arg[2])
          /\ now > MapGet(approvals, result'.arg[1]).expiresAt)
           => LET before == MapGet(approvals, result'.arg[1])
                  after == MapGet(approvals', result'.arg[1])
              IN /\ result'.err = NoError
                 /\ \A i \in DOMAIN before.approvers :
                      IF before.approvers[i].userId = result'.arg[2]
                        THEN after.approvers[i].status = "approved"
                        ELSE after.approvers[i] = before.approvers[i]
                 /\ after.status = IF AllApproved(after) THEN "approved" ELSE "pending"]_vars

\* An approval that was approved by a vote cast after its expiry.
C21_Witness ==
  \E i \in DOMAIN approvals :
    /\ approvals[i].status = "approved"
    /\ \E k \in DOMAIN approvals[i].approvers :
         approvals[i].approvers[k].timestamp > approvals[i].expiresAt
\* Listeners: callers register listeners that return and listeners that
\* throw, next to the engine's own, take them away again, and events are
\* logged.  Math.random() * 2000 + 100 is a simulated execution time of 100
\* or more and less than 2100.
ListenTypes == {"SPAN_CREATED", "SPAN_EXECUTED", "SECURITY_VIOLATION"}
ExecutionTimes == {100, 2099}
ListenerIdInputs == 1..(FirstSerial + 1)

AddEventListener ==
  /\ \E type \in ListenTypes, kind \in CallerListenerKinds : addEventListener(type, kind)
  /\ ObsCall
RemoveEventListener ==
  /\ \E type \in ListenTypes, id \in ListenerIdInputs : removeEventListener(type, id)
  /\ ObsCall
LogEvent ==
  /\ \E type \in ListenTypes, random \in ExecutionTimes :
       logEventCall(type, "system", "info", random)
  /\ ObsCall

ListenNext ==
  \/ AddEventListener
  \/ RemoveEventListener
  \/ LogEvent

SpecListen == Init /\ [][ListenNext]_vars
\* Metrics: samples are recorded just below, at and above the thresholds of
\* the three metrics that have them, and of a metric that has none.
MetricInputs ==
  ({"cpu_usage"} \X {79, 80, 94, 95, 97})
    \cup ({"memory_usage"} \X {79, 80, 95})
    \cup ({"span_execution_time"} \X {4999, 5000, 9999, 10000})
    \cup ({"active_spans"} \X {97})

RecordMetric ==
  /\ \E input \in MetricInputs : recordMetricCall(input[1], input[2], "system")
  /\ ObsCall

MetricNext ==
  \/ RecordMetric

SpecMetric == Init /\ [][MetricNext]_vars
\* Alerts: alerts are raised, by a caller and by a metric over its
\* threshold, and resolved, once and again, by one user and by another, under
\* the ids createAlert returned and under an id it never did, while the clock
\* advances.
ResolverInputs == {"user_default", "approver_1"}
UnknownAlertId == "alert_0_0"

CreateAlert ==
  /\ createAlertCall("security", "high", "system")
  /\ ObsCall
AlertRecordMetric ==
  /\ recordMetricCall("cpu_usage", 97, "system")
  /\ ObsCall
ResolveAlert ==
  /\ \E alertId \in {alerts[i].id : i \in DOMAIN alerts} \cup {UnknownAlertId},
        resolvedBy \in ResolverInputs :
       resolveAlert(alertId, resolvedBy)
  /\ ObsCall

AlertNext ==
  \/ CreateAlert
  \/ AlertRecordMetric
  \/ ResolveAlert
  \/ Tick

SpecAlert == Init /\ [][AlertNext]_vars
\* Queries: events are logged, those of type SPAN_CREATED through the
\* engine's listener recording a metric each, while the clock advances, and
\* both stores are queried by time, by type or metric name, and page by page.
QueryEventTypes == {"SPAN_CREATED", "PERFORMANCE_ALERT"}

TimelineQueryInputs ==
  [startTime : {0, MaxTime}, endTime : {0}, eventTypes : {<< >>, <<"SPAN_CREATED">>},
   sources : {<< >>}, severities : {<< >>}, offset : {0, 1}, limit : {0, 1}]

MetricsQueryInputs ==
  [startTime : {0, MaxTime}, endTime : {0}, metrics : {<< >>, <<"spans_created_total">>},
   sources : {<< >>}, offset : {0, 1}, limit : {0, 1}]

QueryLogEvent ==
  /\ \E type \in QueryEventTypes : logEventCall(type, "system", "info", 0)
  /\ ObsCall
QueryEvents ==
  /\ \E query \in TimelineQueryInputs : queryEventsCall(query)
  /\ ObsCall
QueryMetrics ==
  /\ \E query \in MetricsQueryInputs : queryMetricsCall(query)
  /\ ObsCall

QueryNext ==
  \/ QueryLogEvent
  \/ QueryEvents
  \/ QueryMetrics
  \/ Tick

SpecQuery == Init /\ [][QueryNext]_vars
\* Traces: events are logged to the unified timeline while the clock
\* advances, and linked, one or two distinct ids at a time, ids the timeline
\* handed out and one it never did, to a new trace and to the traces there
\* are, and the traces are read.
UnknownEventId == "event_0_0"

UnifiedCall ==
  /\ obsCalls < MaxObsCalls
  /\ obsCalls' = obsCalls + 1
  /\ UNCHANGED <<engineVars, now, policies, approvals, currentUser>>

TraceIds == {traces[i].id : i \in DOMAIN traces}

UnifiedLogEvent ==
  /\ unifiedLogEvent("")
  /\ UnifiedCall
LinkEvents ==
  /\ \E a, b \in {unifiedEvents[i].id : i \in DOMAIN unifiedEvents} \cup {UnknownEventId},
        traceId \in TraceIds \cup {""} :
       linkEvents(IF a = b THEN << a >> ELSE << a, b >>, traceId)
  /\ UnifiedCall
GetTrace ==
  /\ \E traceId \in TraceIds : getTraceCall(traceId)
  /\ UnifiedCall

TraceNext ==
  \/ UnifiedLogEvent
  \/ LinkEvents
  \/ GetTrace
  \/ Tick

SpecTrace == Init /\ [][TraceNext]_vars
\* Health: the three counts start well below, one below or at the number
\* their check fails at, as that many calls leave them: createSpan of a
\* reversible read at time 1, requestApproval for the first span once a
\* millisecond from time 1 on (a low risk: no approver, pending), and
\* createAlert at the time reached.  Alerts are raised and resolved and the
\* health is read.
RECURSIVE alertsRaised(_, _)
alertsRaised(o, n) ==
  IF n = 0 THEN o ELSE alertsRaised(createAlert(o, "security", "high", "system"), n - 1)

HealthInit ==
  /\ eventListeners = defaultListeners
  /\ \E spanCount \in {1, 99, 100}, approvalCount \in {0, 9, 10}, alertCount \in {0, 4, 5} :
       /\ spans = [k \in 1..spanCount |->
                     [id |-> k, parentId |-> NoParent, type |-> "read", status |-> "pending",
                      startTime |-> 1, endTime |-> NoTime, reversible |-> TRUE]]
       /\ operations = [k \in 1..spanCount |-> Operation(TRUE, PlainText)]
       /\ timeline = [k \in 1..spanCount |->
                        [spanId |-> k, timestamp |-> 1, event |-> "span_created"]]
       /\ inflight = {}
       /\ last = [op |-> "create", spanId |-> spanCount, outcome |-> "ok", at |-> spanCount - 1]
       /\ now = approvalCount + 1
       /\ policies = defaultPolicies
       /\ currentUser = "user_default"
       /\ approvals = [t \in 1..approvalCount |->
                         [newApproval(1) EXCEPT !.id = "approval_" \o ToString(t),
                                                !.requestedAt = t,
                                                !.expiresAt = t + ExpiryWindow]]
       /\ LET o == alertsRaised([events |-> << >>, metrics |-> << >>, alerts |-> << >>,
                                 serial |-> FirstSerial, invoked |-> << >>, random |-> 0,
                                 ret |-> ""], alertCount)
          IN /\ events = o.events
             /\ metrics = o.metrics
             /\ alerts = o.alerts
             /\ serial = o.serial
  /\ result = [op |-> "constructor", arg |-> "", err |-> NoError, ret |-> NoRet]
  /\ auditLogs = << >>
  /\ invoked = << >>
  /\ obsCalls = 0
  /\ unifiedEvents = << >>
  /\ traces = << >>

GetSystemHealth ==
  /\ getSystemHealthCall
  /\ ObsCall

HealthNext ==
  \/ GetSystemHealth
  \/ CreateAlert
  \/ ResolveAlert

SpecHealth == HealthInit /\ [][HealthNext]_vars

(* ======================== observability: properties ==================== *)
\* The ids of the entries of a store.
Ids(store) == {store[i].id : i \in DOMAIN store}

\* after is before with new entries appended and then the oldest entries
\* dropped down to the cap: what is left of before is its newest part, in the
\* same order and unchanged, followed by entries that were not in before.
Retained(before, after, cap) ==
  \E dropped \in 0..Len(before) :
    /\ Len(after) >= Len(before) - dropped
    /\ \A i \in 1..(Len(before) - dropped) : after[i] = before[i + dropped]
    /\ \A i \in (Len(before) - dropped + 1)..Len(after) : after[i].id \notin Ids(before)
    /\ dropped > 0 => Len(after) = cap

\* The observability call op was made in this step.
ObsCalled(op) == obsCalls' # obsCalls /\ result'.op = op

\* The newest entry of a store is one that was not in it before.
Appended(before, after) ==
  Len(after) > 0 /\ after[Len(after)].id \notin Ids(before)

\* C22: after every logEvent, recordMetric and logAudit call the event store
\* holds at most 1,000 events, the metric store at most 10,000 samples and the
\* audit store at most 5,000 records, and what a call leaves in each store is
\* the newest part of what was there, in the same order and unchanged,
\* followed by what the call appended, which is there; entries are dropped
\* only at the cap.
C22_BoundedRings ==
  /\ [](Len(events) <= EventCap /\ Len(metrics) <= MetricCap /\ Len(auditLogs) <= AuditCap)
  /\ [][/\ Retained(events, events', EventCap)
        /\ Retained(metrics, metrics', MetricCap)
        /\ Retained(auditLogs, auditLogs', AuditCap)
        /\ ObsCalled("logEvent") => Appended(events, events')
        /\ ObsCalled("recordMetric") => Appended(metrics, metrics')
        /\ ObsCalled("logAudit") => Appended(auditLogs, auditLogs')]_vars

\* The event store is full and has lost its oldest event to a logEvent whose
\* listener raised an alert, which logged an event of its own.
C22_Witness ==
  /\ result.op = "logEvent"
  /\ result.arg = "SECURITY_VIOLATION"
  /\ Len(events) = EventCap
  /\ events[1].id # "event_1_" \o ToString(FirstSerial)
  /\ events[Len(events) - 1].id = result.ret
  /\ events[Len(events)].type = "PERFORMANCE_ALERT"
  /\ events[Len(events)].severity = "critical"

\* The listeners a call invoked with the event id, in the order of the calls.
InvokedWith(log, id) ==
  LET calls == SelectSeq(log, LAMBDA c : c.event = id)
  IN [i \in DOMAIN calls |-> calls[i].listener]

\* C23: logEvent returns the event's id without raising, with the event
\* stored, and has by then invoked with that event the listeners registered for
\* its type, each once and in registration order, whether or not one of them
\* threw, and no other listener.
C23_ListenersInvoked ==
  [][ObsCalled("logEvent")
       => LET registered == eventListeners[result'.arg]
          IN /\ result'.err = NoError
             /\ result'.ret \in Ids(events')
             /\ InvokedWith(invoked', result'.ret) =
                  [i \in DOMAIN registered |-> registered[i].id]]_vars

\* A logEvent whose second listener threw and whose third was invoked after
\* it.
C23_Witness ==
  /\ result.op = "logEvent"
  /\ LET registered == eventListeners[result.arg]
         with == InvokedWith(invoked, result.ret)
     IN /\ Len(registered) = 3
        /\ registered[2].kind = "throws"
        /\ registered[3].kind = "returns"
        /\ Len(with) = 3
        /\ with[3] = registered[3].id

\* The thresholds the specification names.
WarningAt(metric) == IF metric = "span_execution_time" THEN 5000 ELSE 80
CriticalAt(metric) == IF metric = "span_execution_time" THEN 10000 ELSE 95
Watched == {"cpu_usage", "memory_usage", "span_execution_time"}

\* C24: recordMetric of cpu_usage, memory_usage or span_execution_time with a
\* value at or above the metric's warning threshold (80, 80, 5000) appends
\* exactly one alert, unresolved, and of severity critical when the value is at
\* or above the critical threshold (95, 95, 10000); with a value below the
\* warning threshold, or with another metric, it leaves the alerts as they
\* were.
C24_ThresholdAlerts ==
  [][ObsCalled("recordMetric")
       => LET metric == result'.arg[1]
              value == result'.arg[2]
          IN IF metric \in Watched /\ value >= WarningAt(metric)
               THEN /\ Len(alerts') = Len(alerts) + 1
                    /\ SubSeq(alerts', 1, Len(alerts)) = alerts
                    /\ ~alerts'[Len(alerts')].resolved
                    /\ value >= CriticalAt(metric) => alerts'[Len(alerts')].severity = "critical"
               ELSE alerts' = alerts]_vars

\* cpu_usage = 97 was recorded and the one alert there is is critical and
\* unresolved.
C24_Witness ==
  /\ result.op = "recordMetric"
  /\ result.arg = <<"cpu_usage", 97>>
  /\ Len(alerts) = 1
  /\ alerts[1].severity = "critical"
  /\ ~alerts[1].resolved

\* C25: resolveAlert on an alert that is already resolved, by whichever
\* resolver, and on an id that is no alert's, changes no alert and appends no
\* event; an alert is unresolved when it is created, becomes resolved only in a
\* resolveAlert step, and once resolved stays as it is, resolver and timestamp
\* included.
C25_ResolveIdempotent ==
  [][/\ ObsCalled("resolveAlert")
          => LET i == findAlert(result'.arg[1])
             IN (i = 0 \/ (i # 0 /\ alerts[i].resolved))
                  => alerts' = alerts /\ events' = events
     /\ Len(alerts') >= Len(alerts)
     /\ \A i \in DOMAIN alerts' :
          IF i \in DOMAIN alerts
            THEN /\ alerts[i].resolved => alerts'[i] = alerts[i]
                 /\ (~alerts[i].resolved /\ alerts'[i].resolved)
                      => ObsCalled("resolveAlert")
            ELSE ~alerts'[i].resolved]_vars

\* An alert resolved by one user at one time was resolved again by the other
\* at a later time, and still names the first.
C25_Witness ==
  /\ result.op = "resolveAlert"
  /\ LET i == findAlert(result.arg[1])
     IN /\ i # 0
        /\ alerts[i].resolved
        /\ alerts[i].resolvedBy # result.arg[2]
        /\ alerts[i].resolvedAt < now

\* list holds every entry of store that passes, each once and nothing else,
\* newest first.
NewestFirstOf(list, store, Passes(_)) ==
  /\ \A i \in DOMAIN store : Passes(store[i]) => \E k \in DOMAIN list : list[k] = store[i]
  /\ \A k \in DOMAIN list : \E i \in DOMAIN store : Passes(store[i]) /\ list[k] = store[i]
  /\ \A k, l \in DOMAIN list : k < l => list[k].id # list[l].id
  /\ \A k, l \in DOMAIN list : k < l => list[k].timestamp >= list[l].timestamp

\* page is the part [offset, offset + limit) of some list that holds the
\* matching entries of store newest first.
PageOf(page, store, Passes(_), offset, limit) ==
  \E n \in 0..Len(store) :
    \E list \in [1..n -> Range(store)] :
      /\ NewestFirstOf(list, store, Passes)
      /\ page = SubSeq(list, offset + 1, IF offset + limit < n THEN offset + limit ELSE n)

\* C26: queryEvents and queryMetrics called with a limit return the slice
\* [offset, offset + limit) of the stored entries that match the filter,
\* sorted newest first.
C26_QueriesPaginate ==
  [][/\ (ObsCalled("queryEvents") /\ result'.arg.limit > 0)
          => PageOf(result'.ret, events, LAMBDA e : eventMatches(e, result'.arg),
                    result'.arg.offset, result'.arg.limit)
     /\ (ObsCalled("queryMetrics") /\ result'.arg.limit > 0)
          => PageOf(result'.ret, metrics, LAMBDA m : metricMatches(m, result'.arg),
                    result'.arg.offset, result'.arg.limit)]_vars

\* C27: after linkEvents the trace it returns reads, by getTrace, as the
\* existing events among those linked and whatever the trace held before,
\* each event once, oldest first; called without a trace id, linkEvents
\* returns the id of a trace that was not there before.
C27_TraceHoldsLinkedOnce ==
  [][ObsCalled("linkEvents")
       => LET eventIds == result'.arg[1]
              trace == getTrace(unifiedEvents', traces', result'.ret)
          IN /\ \A i \in DOMAIN eventIds :
                  MapHas(unifiedEvents, eventIds[i])
                    => \E k \in DOMAIN trace : trace[k].id = eventIds[i]
             /\ \A k, l \in DOMAIN trace :
                  k < l => /\ trace[k].id # trace[l].id
                           /\ trace[k].timestamp <= trace[l].timestamp
             /\ result'.arg[2] = ""
                  => /\ ~MapHas(traces, result'.ret)
                     /\ MapHas(traces', result'.ret)]_vars

\* The checks of a health report that failed.
Failed(health) == {i \in DOMAIN health.checks : health.checks[i].status = "fail"}

\* C28: getSystemHealth reports three checks, of the span count, the pending
\* approval count and the unresolved alert count, which fail from 100, 10 and
\* 5 on; it reports healthy when none failed, degraded when exactly one did
\* and critical when two or three did, and it changes nothing that is stored.
C28_HealthByFailedChecks ==
  [][ObsCalled("getSystemHealth")
       => LET health == result'.ret
              pending == Cardinality({i \in DOMAIN approvals : approvals[i].status = "pending"})
              unresolved == Cardinality({i \in DOMAIN alerts : ~alerts[i].resolved})
          IN /\ Len(health.checks) = 3
             /\ (1 \in Failed(health)) <=> Len(spans) >= 100
             /\ (2 \in Failed(health)) <=> pending >= 10
             /\ (3 \in Failed(health)) <=> unresolved >= 5
             /\ Cardinality(Failed(health)) = 0 => health.status = "healthy"
             /\ Cardinality(Failed(health)) = 1 => health.status = "degraded"
             /\ Cardinality(Failed(health)) >= 2 => health.status = "critical"
             /\ UNCHANGED <<engineVars, policies, approvals, currentUser, now, events, metrics,
                            alerts, auditLogs, eventListeners, serial, unifiedEvents, traces>>]_vars

\* The health was read, not as the first call, as critical with exactly two
\* checks failed, that of the alerts one of them.
C28_Witness ==
  /\ result.op = "getSystemHealth"
  /\ result.ret.status = "critical"
  /\ Cardinality(Failed(result.ret)) = 2
  /\ 3 \in Failed(result.ret)
  /\ obsCalls >= 2

(* ================== span lifecycle: creation and timeline ============== *)
\* C29: createSpan returns, having added one span, under an id no span had,
\* in status pending, with the operation it was given stored under that id and
\* reversible true exactly when that operation has a rollback procedure; the
\* spans there were are left as they were, and no step ever changes a span's
\* id, type, parent id or reversible flag.
C29_CreateSpan ==
  [][/\ (EngineStep /\ last'.op = "create")
          => LET spanId == last'.spanId
             IN /\ last'.outcome = "ok"
                /\ spanId \notin DOMAIN spans
                /\ DOMAIN spans' = DOMAIN spans \cup {spanId}
                /\ spans'[spanId].id = spanId
                /\ spans'[spanId].status = "pending"
                /\ spanId \in DOMAIN operations'
                /\ spans'[spanId].reversible = operations'[spanId].rollback
                /\ \A s \in DOMAIN spans : spans'[s] = spans[s] /\ operations'[s] = operations[s]
     /\ \A s \in DOMAIN spans :
          /\ s \in DOMAIN spans'
          /\ spans'[s].id = spans[s].id
          /\ spans'[s].type = spans[s].type
          /\ spans'[s].parentId = spans[s].parentId
          /\ spans'[s].reversible = spans[s].reversible]_vars

\* A span created without a rollback procedure, not reversible, that has
\* since been taken through simulation.
C29_Witness ==
  \E s \in DOMAIN spans :
    /\ ~operations[s].rollback
    /\ ~spans[s].reversible
    /\ spans[s].status = "awaiting_approval"

\* C30: a step that changes a span's status, and a step that creates a span,
\* appends exactly one entry to the engine's timeline, and that entry is the
\* span's; every step leaves the entries there are where and as they are.
C30_TimelineAppendOnly ==
  [][/\ Len(timeline') >= Len(timeline)
     /\ SubSeq(timeline', 1, Len(timeline)) = timeline
     /\ \A s \in DOMAIN spans' :
          (s \notin DOMAIN spans \/ (s \in DOMAIN spans /\ spans'[s].status # spans[s].status))
            => /\ Len(timeline') = Len(timeline) + 1
               /\ timeline'[Len(timeline')].spanId = s]_vars

\* A span that was created, simulated and executed, with the five entries
\* of its five changes of status on the timeline.
C30_Witness ==
  \E s \in DOMAIN spans :
    /\ spans[s].status = "completed"
    /\ Cardinality({i \in DOMAIN timeline : timeline[i].spanId = s}) = 5

(* ======================= span lifecycle: ordering ====================== *)
\* The status a timeline entry reports, for the entries that report one.
StatusReported ==
  [simulation_completed |-> "awaiting_approval",
   execution_started    |-> "executing",
   execution_completed  |-> "completed",
   execution_failed     |-> "failed",
   rollback_completed   |-> "rolled_back"]

\* The entry that opens a method, for each entry that closes one.
StartedBy ==
  [simulation_completed |-> "simulation_started",
   simulation_failed    |-> "simulation_started",
   execution_completed  |-> "execution_started",
   execution_failed     |-> "execution_started",
   rollback_completed   |-> "rollback_started",
   rollback_failed      |-> "rollback_started"]

\* Entries of span s among the first n of the timeline that report one of events.
CountBefore(s, n, evs) ==
  Cardinality({i \in 1..n : timeline[i].spanId = s /\ timeline[i].event \in evs})

\* The entries of each span are in lifecycle order: span_created is its first
\* and only one of that name, and every closing entry has its own opening
\* entry before it.
LifecycleOrder ==
  \A i \in DOMAIN timeline :
    LET e == timeline[i]
    IN /\ (e.event = "span_created") <=> (\A j \in 1..(i - 1) : timeline[j].spanId # e.spanId)
       /\ e.event \in DOMAIN StartedBy
            => CountBefore(e.spanId, i - 1, {StartedBy[e.event]})
                 > CountBefore(e.spanId, i - 1,
                               {x \in DOMAIN StartedBy : StartedBy[x] = StartedBy[e.event]})

\* C31: an entry that reports a span transition is appended in the step that
\* has made the transition, so that whoever reads the entry finds the span in
\* the status it reports; and the entries of one span are in lifecycle order.
C31_LoggedAfterMutation ==
  /\ [][Len(timeline') > Len(timeline)
          => LET e == timeline'[Len(timeline')]
             IN /\ Len(timeline') = Len(timeline) + 1
                /\ e.event \in DOMAIN StatusReported
                     => spans'[e.spanId].status = StatusReported[e.event]]_vars
  /\ []LifecycleOrder

\* A span taken through its whole lifecycle: the rollback procedure has just
\* returned and the last of its seven entries reports it.
C31_Witness ==
  /\ last.op = "rollback"
  /\ last.outcome = "ok"
  /\ timeline[Len(timeline)].event = "rollback_completed"
  /\ spans[last.spanId].status = "rolled_back"
  /\ Len(timeline) = 7

(* ========================== unknown span ids =========================== *)
\* The engine and governance called with an id that no span ever has, in
\* the states that simulateSpan, executeSpan and validateSpanExecution, called
\* with that id and with the ids of the spans there may be, bring about:
\* spans in every status up to executing, procedures in flight, approvals
\* stored.  Spans are writes without a rollback procedure, for which
\* validation asks for an approval.  The clock is held still.
UnknownSpanId == MaxSpans + 1

LookupCreateSpan ==
  /\ createSpan("write", Operation(FALSE, PlainText), NoParent)
  /\ UNCHANGED <<govVars, obsVars>>
LookupSimulateSpan ==
  /\ \E spanId \in SpanIdInputs \cup {UnknownSpanId} : simulateSpanCall(spanId)
  /\ UNCHANGED <<govVars, obsVars>>
LookupExecuteSpan ==
  /\ \E spanId \in SpanIdInputs \cup {UnknownSpanId} : executeSpanCall(spanId)
  /\ UNCHANGED <<govVars, obsVars>>
LookupRollbackSpan ==
  /\ rollbackSpanCall(UnknownSpanId)
  /\ UNCHANGED <<govVars, obsVars>>
LookupAssessSpanRisk ==
  /\ assess(UnknownSpanId)
  /\ UNCHANGED <<engineVars, obsVars>>
LookupEvaluate ==
  /\ evaluate(UnknownSpanId)
  /\ UNCHANGED <<engineVars, obsVars>>
LookupRequestApproval ==
  /\ requestApproval(UnknownSpanId)
  /\ UNCHANGED <<engineVars, obsVars>>
LookupValidateSpanExecution ==
  /\ \E spanId \in SpanIdInputs \cup {UnknownSpanId} : validateSpanExecution(spanId)
  /\ UNCHANGED <<engineVars, obsVars>>

LookupNext ==
  \/ LookupCreateSpan
  \/ LookupSimulateSpan
  \/ SimulateSpanResolve
  \/ LookupExecuteSpan
  \/ LookupRollbackSpan
  \/ LookupAssessSpanRisk
  \/ LookupEvaluate
  \/ LookupRequestApproval
  \/ LookupValidateSpanExecution

SpecLookup == Init /\ [][LookupNext]_vars

GovernanceLookups == {"assessSpanRisk", "evaluate", "requestApproval", "validate"}

\* C32: simulateSpan, executeSpan, rollbackSpan, assessSpanRisk, evaluate,
\* requestApproval and validateSpanExecution called with the id of no span
\* throw NotFound and leave the spans, the bound operations, the timeline,
\* the calls in flight, the approvals and the policies as they were.
C32_UnknownSpanNotFound ==
  [][/\ \A op \in Methods :
          (EngineStep /\ last'.op = op /\ last'.spanId \notin DOMAIN spans)
            => /\ last'.outcome = "NotFound"
               /\ UNCHANGED <<spans, operations, timeline, inflight, approvals, policies>>
     /\ \A op \in GovernanceLookups :
          (Called(op) /\ result'.arg \notin DOMAIN spans)
            => /\ result'.err = "NotFound"
               /\ UNCHANGED <<spans, operations, timeline, inflight, approvals, policies>>]_vars

\* rollbackSpan has just thrown NotFound for an id no span has, while a span
\* is executing, its forward procedure in flight, and an approval is stored.
C32_Witness ==
  /\ last.op = "rollback"
  /\ last.spanId = UnknownSpanId
  /\ last.outcome = "NotFound"
  /\ \E s \in DOMAIN spans : spans[s].status = "executing"
  /\ inflight # {}
  /\ approvals # << >>
  /\ result.op = "requestApproval"
  /\ result.err = "NotFound"

(* ========================= approvals: lost updates ===================== *)
\* C33: every requestApproval that returns has stored its approval under an
\* id no stored approval had, so that the approvals are one more than before
\* and each of those there were is still as it was.
C33_NoLostApproval ==
  [][(Called("requestApproval") /\ result'.err = NoError)
       => /\ ~MapHas(approvals, result'.ret.approvalId)
          /\ Len(approvals') = Len(approvals) + 1
          /\ \A i \in DOMAIN approvals : approvals'[i] = approvals[i]]_vars

(* ===================== approvals and the span engine =================== *)
\* approveSpan that hands the span to the engine once every approver has
\* approved: a span awaiting approval is executed.
spanApproved_executes(approvalId) ==
  IF /\ MapHas(approvals, approvalId)
     /\ MapGet(approvals, approvalId).status = "pending"
     /\ MapGet(approvals', approvalId).status = "approved"
     /\ MapGet(approvals, approvalId).spanId \in DOMAIN spans
     /\ spans[MapGet(approvals, approvalId).spanId].status = "awaiting_approval"
    THEN executeSpanCall(MapGet(approvals, approvalId).spanId)
    ELSE UNCHANGED engineVars

\* What approveSpan does with the span once every approver has approved: it
\* reads the span and, if it is awaiting approval, writes a line to the
\* console.  The engine is not called.
spanApproved(approvalId) == UNCHANGED engineVars

\* The engine next to governance, with the approvals decided either way:
\* navigations that cannot be undone, which are of high risk and take two
\* approvers, are created, simulated and sent to execution, validated, and
\* the approval validation asked for is approved or rejected by its
\* approvers.  The clock is held still.
HandoffUserInputs == {"approver_1", "approver_2"}

HandoffCreateSpan ==
  /\ createSpan("navigation", Operation(FALSE, PlainText), NoParent)
  /\ UNCHANGED <<govVars, obsVars>>

HandoffApproveSpan ==
  /\ \E userId \in HandoffUserInputs, comment \in CommentInputs :
       /\ approveSpan(approvalIdNow, userId, comment)
       /\ spanApproved(approvalIdNow)
  /\ UNCHANGED obsVars

HandoffRejectSpan ==
  /\ \E comment \in CommentInputs : rejectSpan(approvalIdNow, "approver_2", comment)
  /\ UNCHANGED <<engineVars, obsVars>>

HandoffNext ==
  \/ HandoffCreateSpan
  \/ SimulateSpanCall
  \/ SimulateSpanResolve
  \/ ExecuteSpanCall
  \/ ValidateSpanExecution
  \/ HandoffApproveSpan
  \/ HandoffRejectSpan

SpecHandoff == Init /\ [][HandoffNext]_vars

SameButFor(a, b, userId) ==
  /\ b.id = a.id
  /\ b.spanId = a.spanId
  /\ b.requestedBy = a.requestedBy
  /\ b.requestedAt = a.requestedAt
  /\ b.riskAssessment = a.riskAssessment
  /\ b.expiresAt = a.expiresAt
  /\ DOMAIN b.approvers = DOMAIN a.approvers
  /\ \A k \in DOMAIN a.approvers :
       /\ b.approvers[k].userId = a.approvers[k].userId
       /\ a.approvers[k].userId # userId => b.approvers[k] = a.approvers[k]

\* C35: approveSpan and rejectSpan by a user add and remove no approval,
\* leave every other approval as it was, and in the approval they name change
\* nothing but that user's own approver entry and the overall status: the
\* approvers listed, the span, the requester and the risk assessment stay as
\* requestApproval stored them.
C35_DecisionChangesOwnEntry ==
  [][\A op \in {"approveSpan", "rejectSpan"} :
       Called(op)
         => /\ DOMAIN approvals' = DOMAIN approvals
            /\ \A i \in DOMAIN approvals :
                 IF approvals[i].id = result'.arg[1]
                   THEN SameButFor(approvals[i], approvals'[i], result'.arg[2])
                   ELSE approvals'[i] = approvals[i]]_vars

\* Two approvals are stored; in the one just decided the second approver has
\* rejected after the first had approved, and the other approval is pending.
C35_Witness ==
  /\ result.op = "rejectSpan"
  /\ result.err = NoError
  /\ Len(approvals) = 2
  /\ LET a == MapGet(approvals, result.arg[1])
     IN /\ a.status = "rejected"
        /\ \E k \in DOMAIN a.approvers :
             a.approvers[k].userId # result.arg[2] /\ a.approvers[k].status = "approved"
        /\ \E k \in DOMAIN a.approvers :
             a.approvers[k].userId = result.arg[2] /\ a.approvers[k].status = "rejected"
  /\ \E i \in DOMAIN approvals : approvals[i].status = "pending"

(* ===================== spans and their bound operations ================ *)
\* C36: in every state the spans and the bound operations are stored under
\* the same ids, and no step removes a span or an operation: the ids there
\* are stay, each with the operation it was bound to.
C36_SpansAndOperationsTogether ==
  /\ [](DOMAIN spans = DOMAIN operations)
  /\ [][/\ DOMAIN spans \subseteq DOMAIN spans'
        /\ Cardinality(DOMAIN spans') >= Cardinality(DOMAIN spans)
        /\ \A s \in DOMAIN operations :
             s \in DOMAIN operations' /\ operations'[s] = operations[s]]_vars

\* A span whose execution has failed, which nothing can be done with any
\* more, is still stored, and so is its operation.
C36_Witness ==
  \E s \in DOMAIN spans :
    /\ spans[s].status = "failed"
    /\ spans[s].endTime # NoTime
    /\ s \in DOMAIN operations
    /\ inflight = {}

(* ============================ trace membership ========================= *)
\* The positions at which the list of the trace stored at t holds event id.
HeldAt(t, id) == {k \in DOMAIN traces[t].eventIds : traces[t].eventIds[k] = id}

\* An event is on the list of the trace its traceId field names, and on no other.
OnOwnTraceOnly ==
  \A i \in DOMAIN unifiedEvents, t \in DOMAIN traces :
    (HeldAt(t, unifiedEvents[i].id) # {}) <=> (unifiedEvents[i].traceId = traces[t].id)

\* No trace list holds an event id twice.
HeldOnce ==
  \A i \in DOMAIN unifiedEvents, t \in DOMAIN traces :
    Cardinality(HeldAt(t, unifiedEvents[i].id)) <= 1

\* C37: in every state an event id is on the list of trace t exactly when the
\* event's traceId is t, so on the list of at most one trace, and it is there
\* at most once.
C37_TraceMembership == OnOwnTraceOnly /\ HeldOnce

(* ======================= approvals: one per span ======================= *)
\* The stored approvals of span s that are pending.
PendingFor(s) == {i \in DOMAIN approvals : approvals[i].spanId = s /\ approvals[i].status = "pending"}

\* C38: in every state a span has at most one pending approval.
C38_OnePendingApproval ==
  \A s \in DOMAIN spans : Cardinality(PendingFor(s)) <= 1

(* ============================== termination ============================ *)
\* The calls there can be in flight: a method, its span, and the length of
\* the timeline when it was called.
Calls == [op : Methods, spanId : SpanIdInputs, at : 0..(MaxSpans + 2 * MaxCalls)]

\* The bound procedure of suspended call c returns or throws, and the method
\* runs on from its await.
Returns(c) ==
  /\ \/ simulateSpanResolve(c)
     \/ simulateSpanReject(c)
     \/ executeSpanResolve(c)
     \/ executeSpanReject(c)
     \/ rollbackSpanResolve(c)
     \/ rollbackSpanReject(c)
  /\ UNCHANGED <<govVars, obsVars>>

\* The engine with bound procedures that terminate: no call stays suspended
\* for ever.
SpecLive == Init /\ [][Next]_vars /\ \A c \in Calls : WF_vars(Returns(c))

\* Span s is stored and in this status.
InStatus(s, status) == s \in DOMAIN spans /\ spans[s].status = status

\* Span s leaves status `from` only in the step in which a suspended call of
\* method op on s is resumed, and then for one of the statuses `to`.
LeavesOnReturn(s, from, op, to) ==
  (spans[s].status = from /\ spans'[s].status # from)
    => /\ \E c \in inflight : c.op = op /\ c.spanId = s /\ c \notin inflight'
       /\ spans'[s].status \in to

\* C39: with bound procedures that return or throw, a span that is simulating
\* comes to be awaiting_approval or failed and a span that is executing comes
\* to be completed or failed; and a span leaves simulating or executing in no
\* other step than the one in which its procedure returns or throws, so that
\* it stays executing for as long as the forward procedure has not returned.
C39_LeavesOnlyOnReturn ==
  /\ \A s \in SpanIdInputs :
       /\ InStatus(s, "simulating")
            ~> (InStatus(s, "awaiting_approval") \/ InStatus(s, "failed"))
       /\ InStatus(s, "executing")
            ~> (InStatus(s, "completed") \/ InStatus(s, "failed"))
  /\ [][\A s \in DOMAIN spans :
          /\ LeavesOnReturn(s, "simulating", "simulate", {"awaiting_approval", "failed"})
          /\ LeavesOnReturn(s, "executing", "execute", {"completed", "failed"})]_vars
====
